---- MODULE Spec2Model ----
(***************************************************************************)
(* A model of the client-side data layer of the code-review UI:            *)
(*   - CacheManager   (services/cacheManager.ts): memory Map + IndexedDB   *)
(*   - ReviewService  (services/reviewService.ts): axios client, retry,    *)
(*                     request de-duplication, cache keys                  *)
(*   - ErrorHandler   (services/errorHandler.ts)                           *)
(*   - useReviewStore (store/reviewStore.ts) and ReviewProvider            *)
(*                     (contexts/ReviewContext.tsx)                        *)
(* Every `await` of the source is a step boundary: the code between two    *)
(* awaits runs atomically (single-threaded event loop).                    *)
(***************************************************************************)
EXTENDS Integers, Sequences, FiniteSets, TLC

VARIABLES
  now,      \* Date.now(), in milliseconds
  cache,    \* the cacheManager singleton and the IndexedDB behind it
  calls,    \* the asynchronous invocations in progress (one record per call)
  last,     \* the latest cache call of a direct caller and what it returned
  setExpiry, \* per key, the expiresAt computed by the latest set of a direct caller
  keyIn,    \* two filter objects handed to the key builders
  keyOut,   \* the cache keys and request keys built from them
  commentIn,  \* a review with its comment tree and the comment to update
  commentOut, \* the review updateComment builds from it
  net,      \* the HTTP requests of reviewService.api and its requestQueue
  errorHandler, \* the errorHandler singleton
  server,   \* the reviews the REST API holds
  store,    \* the state of useReviewStore
  provider  \* the state of the mounted ReviewProvider

cacheVars == <<now, cache, calls, last, setExpiry>>
treeVars == <<commentIn, commentOut>>
keyVars == <<keyIn, keyOut, treeVars>>
httpVars == <<net, errorHandler, server>>
uiVars == <<store, provider>>
vars == <<now, cache, calls, last, setExpiry, keyIn, keyOut, commentIn, commentOut,
          net, errorHandler, server, store, provider>>

(***************************************************************************)
(* Bounds of the model.                                                    *)
(***************************************************************************)
MaxTicks == 2    \* how often the clock advances
MaxQueue == 1    \* IndexedDB requests pending when a caller issues another

\* The slots of the asynchronous invocations in progress.
CallIds == {1, 2}

(***************************************************************************)
(* CacheManager (services/cacheManager.ts).                                *)
(*                                                                         *)
(* cache.memoryCache       the Map, as the sequence of its [key, entry]    *)
(*                         pairs in insertion order (Map iteration order)  *)
(* cache.currentMemorySize the accounted number of bytes                   *)
(* cache.db                "opening" (init() has not settled: this.db is   *)
(*                         null), "open", or "failed" (this.db stays null) *)
(* cache.idb               the object store 'cache': key -> stored entry   *)
(* cache.queue             the IndexedDB requests issued and not yet run,  *)
(*                         in issue order (transactions on one store run   *)
(*                         in the order they were created)                 *)
(* A cached datum is a record [t, v]: t is "blob" (an opaque value of a    *)
(* direct caller), "list" (Review[]) or "review" (Review).                 *)
(***************************************************************************)
maxMemorySize == 52428800
defaultTTL == 300000

Blob(name) == [t |-> "blob", v |-> name]

\* The serialised size of the values the direct callers store.
BlobBytes(name) == IF name = "big" THEN 31457282 ELSE 4

RECURSIVE ListBytes(_)
ListBytes(items) ==
  IF items = <<>> THEN 2 ELSE 64 + 16 * Head(items).ver + ListBytes(Tail(items))

DataBytes(d) ==
  CASE d.t = "blob" -> BlobBytes(d.v)
    [] d.t = "list" -> ListBytes(d.v)
    [] OTHER -> 64 + 16 * d.v.ver

\* estimateSize: the byte length of JSON.stringify(entry)
estimateSize(entry) == 73 + DataBytes(entry.data)

MemHas(mem, k) == \E i \in 1..Len(mem) : mem[i].key = k

MemGet(mem, k) == mem[CHOOSE i \in 1..Len(mem) : mem[i].key = k].entry

\* (mutant) a set that keeps the entry a key already has
MemSetKeepsExisting(mem, k, e) ==
  IF MemHas(mem, k) THEN mem ELSE Append(mem, [key |-> k, entry |-> e])

\* Map.prototype.set: an existing key keeps its place in the iteration order
MemSet(mem, k, e) ==
  IF MemHas(mem, k)
  THEN [i \in 1..Len(mem) |->
          IF mem[i].key = k THEN [key |-> k, entry |-> e] ELSE mem[i]]
  ELSE Append(mem, [key |-> k, entry |-> e])

MemDelete(mem, k) == SelectSeq(mem, LAMBDA x : x.key # k)

MemKeys(mem) == {mem[i].key : i \in 1..Len(mem)}

\* An IndexedDB request: op is "put", "get", "delete", "clear", "getAllKeys",
\* "sweepGet"; cid is the call awaiting it (0: nobody awaits it); at is the
\* `now` captured by cleanup().
IdbReq(op, k, e, cid, at) == [op |-> op, key |-> k, entry |-> e, cid |-> cid, at |-> at]

NoEntry == [data |-> Blob(""), timestamp |-> 0, expiresAt |-> 0, version |-> 0]

Enqueue(c, r) == [c EXCEPT !.queue = Append(@, r)]

\* this.db.delete('cache', key), not awaited
IdbDeleteForget(c, k) ==
  IF c.db = "open" THEN Enqueue(c, IdbReq("delete", k, NoEntry, 0, 0)) ELSE c

\* Array.prototype.sort is stable: entries with equal timestamps keep the
\* Map's iteration order.  The sorted array, by insertion.
RECURSIVE SortByTimestamp(_)
SortByTimestamp(mem) ==
  IF mem = <<>> THEN <<>>
  ELSE LET rest == SortByTimestamp(SubSeq(mem, 1, Len(mem) - 1))
           x == mem[Len(mem)]
           before == SelectSeq(rest, LAMBDA y : y.entry.timestamp <= x.entry.timestamp)
           after == SelectSeq(rest, LAMBDA y : y.entry.timestamp > x.entry.timestamp)
       IN before \o <<x>> \o after

RECURSIVE EvictFirst(_, _)
EvictFirst(c, victims) ==
  IF victims = <<>> THEN c
  ELSE LET v == Head(victims)
           c1 == [c EXCEPT !.memoryCache = MemDelete(@, v.key),
                           !.currentMemorySize = @ - estimateSize(v.entry)]
       IN EvictFirst(IdbDeleteForget(c1, v.key), Tail(victims))

\* evictLRU: the oldest-stored floor(20%) of the entries leave both layers
evictLRU(c) ==
  LET entries == SortByTimestamp(c.memoryCache)
      toEvict == (Len(entries) * 2) \div 10
  IN EvictFirst(c, SubSeq(entries, 1, toEvict))

\* The entry set() builds.
NewEntry(data, ttl, t) ==
  [data |-> data, timestamp |-> t, expiresAt |-> t + ttl, version |-> 1]

\* set(), up to its await: the memory layer is written before the put is
\* issued.  cid is the call that awaits the put (0 when the caller does not).
SetSync(c, k, data, ttl, t, cid) ==
  LET entry == NewEntry(data, ttl, t)
      size == estimateSize(entry)
      c1 == IF MemHas(c.memoryCache, k)
            THEN [c EXCEPT !.currentMemorySize = @ - estimateSize(MemGet(c.memoryCache, k))]
            ELSE c
      c2 == IF c1.currentMemorySize + size > maxMemorySize THEN evictLRU(c1) ELSE c1
      c3 == [c2 EXCEPT !.memoryCache = MemSet(@, k, entry),
                       !.currentMemorySize = @ + size]
  IN IF c3.db = "open" THEN Enqueue(c3, IdbReq("put", k, entry, cid, 0)) ELSE c3

\* Whether set() suspends on the durable write.
SetAwaits(c) == c.db = "open"

\* (mutant) a get that reports an expired entry absent and leaves it in place
GetSyncKeepsExpired(c, k, t) == c

\* get(): the memory layer after the call
GetSync(c, k, t) ==
  IF MemHas(c.memoryCache, k) /\ t > MemGet(c.memoryCache, k).expiresAt
  THEN [c EXCEPT !.memoryCache = MemDelete(@, k),
                 !.currentMemorySize = @ - estimateSize(MemGet(c.memoryCache, k))]
  ELSE c

\* get(): what the call returns, as [has, data] (has = FALSE: null)
Null == [has |-> FALSE, data |-> Blob("")]
Some(d) == [has |-> TRUE, data |-> d]

GetResult(c, k, t) ==
  IF MemHas(c.memoryCache, k) /\ ~(t > MemGet(c.memoryCache, k).expiresAt)
  THEN Some(MemGet(c.memoryCache, k).data)
  ELSE Null

\* getAsync(), up to its first await: a live memory entry is returned; an
\* expired one is dropped; otherwise the durable layer is asked, if there.
GetAsyncHit(c, k, t) == GetResult(c, k, t).has

GetAsyncSync(c, k, t, cid) ==
  LET c1 == GetSync(c, k, t)
  IN IF GetAsyncHit(c, k, t) \/ c1.db # "open" THEN c1
     ELSE Enqueue(c1, IdbReq("get", k, NoEntry, cid, 0))

GetAsyncAwaits(c, k, t) == ~GetAsyncHit(c, k, t) /\ c.db = "open"

\* delete()
DeleteSync(c, k) ==
  LET c1 == IF MemHas(c.memoryCache, k)
            THEN [c EXCEPT !.currentMemorySize = @ - estimateSize(MemGet(c.memoryCache, k)),
                           !.memoryCache = MemDelete(@, k)]
            ELSE c
  IN IdbDeleteForget(c1, k)

\* clear()
ClearSync(c) ==
  LET c1 == [c EXCEPT !.memoryCache = <<>>, !.currentMemorySize = 0]
  IN IF c1.db = "open" THEN Enqueue(c1, IdbReq("clear", "", NoEntry, 0, 0)) ELSE c1

\* cleanup(): the expired memory entries leave at once; the durable layer is
\* scanned by a chain of requests nobody awaits.
RECURSIVE DropExpired(_, _, _)
DropExpired(c, mem, t) ==
  IF mem = <<>> THEN c
  ELSE LET x == Head(mem)
           c1 == IF t > x.entry.expiresAt
                 THEN [c EXCEPT !.currentMemorySize = @ - estimateSize(x.entry),
                                !.memoryCache = MemDelete(@, x.key)]
                 ELSE c
       IN DropExpired(c1, Tail(mem), t)

cleanup(c, t) ==
  LET c1 == DropExpired(c, c.memoryCache, t)
  IN IF c1.db = "open" THEN Enqueue(c1, IdbReq("getAllKeys", "", NoEntry, 0, t)) ELSE c1

(***************************************************************************)
(* The IndexedDB object store, as a function from the keys it holds.       *)
(***************************************************************************)
EmptyMap == [x \in {} |-> NoEntry]
MapPut(m, k, e) == [x \in (DOMAIN m) \cup {k} |-> IF x = k THEN e ELSE m[x]]
MapDel(m, k) == [x \in (DOMAIN m) \ {k} |-> m[x]]

RECURSIVE SetToSeq(_)
SetToSeq(S) ==
  IF S = {} THEN <<>> ELSE LET x == CHOOSE y \in S : TRUE IN <<x>> \o SetToSeq(S \ {x})

RECURSIVE EnqueueSweepGets(_, _, _)
EnqueueSweepGets(c, keys, at) ==
  IF keys = <<>> THEN c
  ELSE EnqueueSweepGets(Enqueue(c, IdbReq("sweepGet", Head(keys), NoEntry, 0, at)), Tail(keys), at)

\* The object store once the requests pending on it have run.
RECURSIVE ApplyQueue(_, _)
ApplyQueue(idb, q) ==
  IF q = <<>> THEN idb
  ELSE LET r == Head(q)
       IN ApplyQueue(CASE r.op = "put" -> MapPut(idb, r.key, r.entry)
                       [] r.op = "delete" -> MapDel(idb, r.key)
                       [] r.op = "clear" -> EmptyMap
                       [] OTHER -> idb,
                     Tail(q))

\* What a cacheManager.getAsync(k) called at time t yields, as [has, data].
AsyncView(c, k, t) ==
  LET durable == ApplyQueue(c.idb, c.queue)
  IN IF GetResult(c, k, t).has THEN GetResult(c, k, t)
     ELSE IF c.db = "open" /\ k \in DOMAIN durable /\ t <= durable[k].expiresAt
     THEN Some(durable[k].data)
     ELSE Null

(***************************************************************************)
(* An asynchronous invocation.  pc is the place it resumes at, stack the   *)
(* places its callers resume at, wait what it is suspended on ("db": an    *)
(* IndexedDB request, "net": an HTTP request, "none": runnable), ret the   *)
(* value the awaited call produced: [ok, has, data], ok = FALSE for a      *)
(* rejection, has = FALSE for null / undefined.                            *)
(***************************************************************************)
Ret(ok, has, data) == [ok |-> ok, has |-> has, data |-> data]
RetNull == Ret(TRUE, FALSE, Blob(""))
RetVal(d) == Ret(TRUE, TRUE, d)

\* The other fields are the locals of the invocation: key the cache key, id
\* the review id, f the filters, req the call whose HTTP request is awaited,
\* tmp a value held across an await, opts the object `options ||
\* state.filters`, had the object state.filters of the snapshot taken at the
\* start, force the flag.  after is the call of the same operation that was
\* in progress when this one was made (0: none), seen what getAsync(key) had
\* to yield when the call was made, before the store's reviews and
\* selectedReview when the store action was called, cm the comment id,
\* closure the selectedReview of the store object the callback closed over,
\* memSeen what the memory layer alone had to yield when getAsync was called,
\* view what the two layers held for the key at that time.
NoObject == [ref |-> "", props |-> <<>>]

\* A review is [id, ver, dates, comments]: ver the version the API gave it,
\* dates "string" (ISO strings) or "Date", comments the name of its comment
\* list ("absent": no such property, "plain": [], "c1": [c1], "c1u": [c1 as
\* updated]).
NoReview == [id |-> "", ver |-> 0, dates |-> "", comments |-> ""]
NoSelected == [has |-> FALSE, v |-> NoReview]
Selected(r) == [has |-> TRUE, v |-> r]

\* store.reviews and store.selectedReview when a store action starts.
Snapshot(s) == [reviews |-> s.reviews, selectedReview |-> s.selectedReview]
NoBefore == [reviews |-> <<>>, selectedReview |-> NoSelected]

\* The two layers as getAsync(k) finds them at time t: mem says that the
\* memory layer has an entry, memExpired that its expiresAt has passed, dur
\* that the object store has one (the pending writes done), durEntry which.
LayerView(c, k, t) ==
  LET durable == ApplyQueue(c.idb, c.queue)
  IN [mem |-> MemHas(c.memoryCache, k),
      memExpired |-> MemHas(c.memoryCache, k) /\ t > MemGet(c.memoryCache, k).expiresAt,
      dur |-> k \in DOMAIN durable,
      durEntry |-> IF k \in DOMAIN durable THEN durable[k] ELSE NoEntry,
      db |-> c.db]
NoView == [mem |-> FALSE, memExpired |-> FALSE, dur |-> FALSE, durEntry |-> NoEntry,
           db |-> ""]

IdleCall ==
  [op |-> "idle", pc |-> "idle", stack |-> <<>>, key |-> "", wait |-> "none",
   ret |-> RetNull, id |-> "", f |-> <<>>, req |-> 0, tmp |-> Blob(""),
   opts |-> NoObject, had |-> NoObject, force |-> FALSE, after |-> 0,
   seen |-> Null, before |-> NoBefore, cm |-> "", first |-> FALSE,
   closure |-> NoSelected, memSeen |-> Null, view |-> NoView]

NewCall(op, pc, key, wait) ==
  [IdleCall EXCEPT !.op = op, !.pc = pc, !.key = key, !.wait = wait]

\* The cache after the request at the head of the queue has run at time t.
\* A "get" is getAsync's (lines 111-120): a live stored entry re-populates
\* the memory layer, an expired one is deleted from the store (awaited).
IdbRun(c, t) ==
  LET r == Head(c.queue)
      c0 == [c EXCEPT !.queue = Tail(@)]
      stored == IF r.key \in DOMAIN c.idb THEN c.idb[r.key] ELSE NoEntry
      found == r.key \in DOMAIN c.idb
  IN CASE r.op = "put" -> [c0 EXCEPT !.idb = MapPut(@, r.key, r.entry)]
       [] r.op = "delete" -> [c0 EXCEPT !.idb = MapDel(@, r.key)]
       [] r.op = "clear" -> [c0 EXCEPT !.idb = EmptyMap]
       [] r.op = "get" ->
            IF ~found THEN c0
            ELSE IF t <= stored.expiresAt
                 THEN [c0 EXCEPT !.memoryCache = MemSet(@, r.key, stored)]
                 ELSE Enqueue(c0, IdbReq("delete", r.key, NoEntry, r.cid, 0))
       [] r.op = "getAllKeys" -> EnqueueSweepGets(c0, SetToSeq(DOMAIN c.idb), r.at)
       [] OTHER -> \* sweepGet
            IF found /\ r.at > stored.expiresAt
            THEN Enqueue(c0, IdbReq("delete", r.key, NoEntry, 0, 0))
            ELSE c0

\* What the call awaiting the head request resumes with; IdbResumes says
\* whether it resumes now (a get that found an expired entry awaits the delete).
IdbResumes(c, t) ==
  LET r == Head(c.queue)
  IN /\ r.cid # 0
     /\ ~(r.op = "get" /\ r.key \in DOMAIN c.idb /\ t > c.idb[r.key].expiresAt)

IdbResult(c, t) ==
  LET r == Head(c.queue)
  IN IF r.op = "get" /\ r.key \in DOMAIN c.idb /\ t <= c.idb[r.key].expiresAt
     THEN RetVal(c.idb[r.key].data)
     ELSE RetNull

(***************************************************************************)
(* The direct callers of the cache (specification SpecCache).              *)
(***************************************************************************)
CacheKeys == {"k1"}
CacheValues == {Blob("v1"), Blob("big")}
CacheTtls == {0, 1}
CacheCallers == {1}

\* last: op the call, key / ttl its arguments, at the time of the call, val
\* what it stored (set) or returned (get, getAsync), had whether the memory
\* layer held the key before the call, expired whether that entry's
\* expiresAt had passed, elapsed whether the expiresAt of the latest set of
\* the key had passed.
NoLast == [op |-> "none", key |-> "", ttl |-> 0, at |-> 0, val |-> Null,
           had |-> FALSE, expired |-> FALSE, elapsed |-> FALSE]

InitCacheManager ==
  [memoryCache |-> <<>>, currentMemorySize |-> 0, db |-> "opening",
   idb |-> EmptyMap, queue |-> <<>>]

Free(cid) == calls[cid].op = "idle"

\* The callers stop issuing requests while MaxQueue are pending.
QueueRoom == Len(cache.queue) < MaxQueue

\* cacheManager.set(k, v, {ttl}): the caller goes on without waiting for the
\* durable write (nothing of the cache runs when the put completes).
CacheSet(k, v, ttl) ==
  /\ QueueRoom
  /\ cache' = SetSync(cache, k, v, ttl, now, 0)
  /\ last' = [NoLast EXCEPT !.op = "set", !.key = k, !.ttl = ttl, !.at = now,
                            !.val = Some(v), !.had = MemHas(cache.memoryCache, k)]
  /\ setExpiry' = MapPut(setExpiry, k, now + ttl)
  /\ UNCHANGED <<now, calls, keyVars, httpVars, uiVars>>

\* cacheManager.get(k)
CacheGet(k) ==
  /\ cache' = GetSync(cache, k, now)
  /\ last' = [NoLast EXCEPT !.op = "get", !.key = k, !.at = now,
                !.val = GetResult(cache, k, now),
                !.had = MemHas(cache.memoryCache, k),
                !.expired = (MemHas(cache.memoryCache, k)
                             /\ now > MemGet(cache.memoryCache, k).expiresAt),
                !.elapsed = (k \in DOMAIN setExpiry /\ now > setExpiry[k])]
  /\ UNCHANGED <<now, calls, setExpiry, keyVars, httpVars, uiVars>>

\* cacheManager.getAsync(k)
CacheGetAsync(cid, k) ==
  /\ Free(cid)
  /\ QueueRoom
  /\ cache' = GetAsyncSync(cache, k, now, cid)
  /\ calls' = [calls EXCEPT ![cid] =
                 [NewCall("getAsync", "settle", k,
                          IF GetAsyncAwaits(cache, k, now) THEN "db" ELSE "none")
                    EXCEPT !.ret = LET g == GetResult(cache, k, now)
                                   IN Ret(TRUE, g.has, g.data),
                           !.memSeen = GetResult(cache, k, now),
                           !.view = LayerView(cache, k, now)]]
  /\ last' = NoLast
  /\ UNCHANGED <<now, setExpiry, keyVars, httpVars, uiVars>>

\* cacheManager.delete(k)
CacheDelete(k) ==
  /\ QueueRoom
  /\ cache' = DeleteSync(cache, k)
  /\ last' = [NoLast EXCEPT !.op = "delete", !.key = k, !.at = now]
  /\ UNCHANGED <<now, calls, setExpiry, keyVars, httpVars, uiVars>>

\* cacheManager.clear()
CacheClear ==
  /\ QueueRoom
  /\ cache' = ClearSync(cache)
  /\ last' = [NoLast EXCEPT !.op = "clear", !.at = now]
  /\ UNCHANGED <<now, calls, setExpiry, keyVars, httpVars, uiVars>>

\* The promise of a getAsync call settles; the caller sees the result.
CacheSettle(cid) ==
  /\ calls[cid].op = "getAsync"
  /\ calls[cid].pc = "settle"
  /\ calls[cid].wait = "none"
  /\ calls' = [calls EXCEPT ![cid] = IdleCall]
  /\ last' = [NoLast EXCEPT !.op = "getAsync", !.key = calls[cid].key,
                !.at = now,
                !.val = [has |-> calls[cid].ret.has, data |-> calls[cid].ret.data]]
  /\ UNCHANGED <<now, cache, setExpiry, keyVars, httpVars, uiVars>>

\* The setInterval callback of startCleanupInterval (armed once init() has
\* opened the database).
CleanupTick ==
  /\ cache.db = "open"
  /\ QueueRoom
  /\ cache' = cleanup(cache, now)
  /\ last' = NoLast
  /\ UNCHANGED <<now, calls, setExpiry, keyVars, httpVars, uiVars>>

\* IndexedDB runs the oldest pending request; the call that awaits it resumes.
IdbStep ==
  /\ cache.queue # <<>>
  /\ cache' = IdbRun(cache, now)
  /\ calls' = LET cid == Head(cache.queue).cid
              IN IF IdbResumes(cache, now)
                 THEN [calls EXCEPT ![cid].wait = "none",
                                    ![cid].ret = IdbResult(cache, now)]
                 ELSE calls
  /\ last' = NoLast
  /\ UNCHANGED <<now, setExpiry, keyVars, httpVars, uiVars>>

\* init(): openDB resolves, or rejects (IndexedDB not available)
IdbOpened ==
  /\ cache.db = "opening"
  /\ cache' = [cache EXCEPT !.db = "open"]
  /\ last' = NoLast
  /\ UNCHANGED <<now, calls, setExpiry, keyVars, httpVars, uiVars>>

IdbOpenFailed ==
  /\ cache.db = "opening"
  /\ cache' = [cache EXCEPT !.db = "failed"]
  /\ last' = NoLast
  /\ UNCHANGED <<now, calls, setExpiry, keyVars, httpVars, uiVars>>

\* The page is reloaded: the module is evaluated again (a new CacheManager,
\* init() called), the object store keeps what was committed.
Reload ==
  /\ cache.queue = <<>>
  /\ \A c \in CallIds : Free(c)
  /\ cache.db # "opening"
  /\ cache' = [InitCacheManager EXCEPT !.idb = cache.idb]
  /\ last' = NoLast
  /\ UNCHANGED <<now, calls, setExpiry, keyVars, httpVars, uiVars>>

\* cacheManager.set(k, v, {ttl}) by a caller that awaits the promise
CacheSetAwait(cid, k, v, ttl) ==
  /\ Free(cid)
  /\ QueueRoom
  /\ cache' = SetSync(cache, k, v, ttl, now, cid)
  /\ calls' = [calls EXCEPT ![cid] =
                 [NewCall("set", "settle", k, IF SetAwaits(cache) THEN "db" ELSE "none")
                    EXCEPT !.tmp = v, !.view = LayerView(cache, k, now)]]
  /\ last' = [NoLast EXCEPT !.op = "set", !.key = k, !.ttl = ttl, !.at = now,
                            !.val = Some(v), !.had = MemHas(cache.memoryCache, k)]
  /\ setExpiry' = MapPut(setExpiry, k, now + ttl)
  /\ UNCHANGED <<now, keyVars, httpVars, uiVars>>

\* The promise of that set settles; the caller goes on.
CacheSetSettle(cid) ==
  /\ calls[cid].op = "set"
  /\ calls[cid].pc = "settle"
  /\ calls[cid].wait = "none"
  /\ calls' = [calls EXCEPT ![cid] = IdleCall]
  /\ last' = NoLast
  /\ UNCHANGED <<now, cache, setExpiry, keyVars, httpVars, uiVars>>

\* (mutant) a rejection of the durable layer that reaches the caller
IdbRejectPropagates == Ret(FALSE, FALSE, Blob(""))

\* What the call awaiting a rejected request resumes with: set's and
\* getAsync's catch blocks log the error and the call goes on to its end.
IdbRejectResult == RetNull

\* IndexedDB rejects the oldest pending request: nothing is stored or
\* removed; delete / clear have a .catch, the chain of cleanup() stops.
IdbReject ==
  /\ cache.queue # <<>>
  /\ cache' = [cache EXCEPT !.queue = Tail(@)]
  /\ calls' = LET cid == Head(cache.queue).cid
              IN IF cid # 0
                 THEN [calls EXCEPT ![cid].wait = "none", ![cid].ret = IdbRejectResult]
                 ELSE calls
  /\ last' = [NoLast EXCEPT !.op = "rejected:" \o Head(cache.queue).op,
                            !.key = Head(cache.queue).key, !.at = now]
  /\ UNCHANGED <<now, setExpiry, keyVars, httpVars, uiVars>>

\* Time passes.
Tick(step) ==
  /\ now + step <= MaxTicks * step
  /\ now' = now + step
  /\ UNCHANGED <<cache, calls, last, setExpiry, keyVars, httpVars, uiVars>>

(***************************************************************************)
(* Cache keys and request keys.  A filter object is the sequence of its    *)
(* own properties in insertion order, each [name, val] with val the JSON   *)
(* text of the value or "undefined".  JSON.stringify writes the properties *)
(* in insertion order and leaves out those whose value is undefined.       *)
(***************************************************************************)
Prop(name, val) == [name |-> name, val |-> val]

RECURSIVE JoinProps(_)
JoinProps(props) ==
  IF props = <<>> THEN ""
  ELSE LET p == Head(props)
           text == "\"" \o p.name \o "\":" \o p.val
       IN IF Tail(props) = <<>> THEN text ELSE text \o "," \o JoinProps(Tail(props))

\* JSON.stringify(filters) for an object
Stringify(props) ==
  "{" \o JoinProps(SelectSeq(props, LAMBDA p : p.val # "undefined")) \o "}"

\* `reviews:${JSON.stringify(filters)}`
ListCacheKey(props) == "reviews:" \o Stringify(props)

\* `getReviews:${JSON.stringify(filters)}`
RequestKey(props) == "getReviews:" \o Stringify(props)

\* `review:${id}`
ReviewCacheKey(id) == "review:" \o id

\* The filter objects of at most two properties, no name twice.
FilterNames == {"status", "priority", "authorId"}
FilterVals == {"[\"open\"]", "undefined"}

FilterObjects ==
  {<<>>}
    \cup {<<Prop(n, v)>> : n \in FilterNames, v \in FilterVals}
    \cup {<<Prop(n[1], v[1]), Prop(n[2], v[2])>> :
            n \in {m \in FilterNames \X FilterNames : m[1] # m[2]},
            v \in FilterVals \X FilterVals}

\* The key/value pairs an object holds.
PairsOf(props) == {props[i] : i \in 1..Len(props)}

NoKeys == [done |-> FALSE, cacheKey1 |-> "", cacheKey2 |-> "",
           requestKey1 |-> "", requestKey2 |-> ""]

\* getReviews / fetchReviews build the keys of both objects
BuildKeys ==
  /\ ~keyOut.done
  /\ keyOut' = [done |-> TRUE,
                cacheKey1 |-> ListCacheKey(keyIn[1]),
                cacheKey2 |-> ListCacheKey(keyIn[2]),
                requestKey1 |-> RequestKey(keyIn[1]),
                requestKey2 |-> RequestKey(keyIn[2])]
  /\ UNCHANGED <<keyIn, treeVars, cacheVars, httpVars, uiVars>>

\* The next pair of filter objects is taken up.
NextObjects ==
  /\ keyOut.done
  /\ keyIn' \in FilterObjects \X FilterObjects
  /\ keyOut' = NoKeys
  /\ UNCHANGED <<treeVars, cacheVars, httpVars, uiVars>>

(***************************************************************************)
(* The REST API behind /api/reviews.  server.revs maps the id of every     *)
(* review the API holds to its version (a PATCH makes a new version);      *)
(* server.comments says whether the review payloads carry a `comments`     *)
(* array ("plain") or no such property ("absent").  Every review matches   *)
(* every filter.                                                           *)
(***************************************************************************)
MaxVer == 2      \* versions a review goes through
MaxErrors == 1   \* failed responses the error handler gets to see

IdOrder == <<"r1", "r2">>
ReviewIds == {IdOrder[i] : i \in 1..Len(IdOrder)}

ReviewData(r) == [t |-> "review", v |-> r]
ListData(rs) == [t |-> "list", v |-> rs]
ErrorData(kind, code, status) ==
  [t |-> "error", v |-> [kind |-> kind, code |-> code, status |-> status]]

\* The JSON of a review: dates are ISO strings.
Payload(sv, id) ==
  [id |-> id, ver |-> sv.revs[id], dates |-> "string", comments |-> sv.comments]

ServerList(sv) ==
  LET present == SelectSeq(IdOrder, LAMBDA i : i \in DOMAIN sv.revs)
  IN [n \in 1..Len(present) |-> Payload(sv, present[n])]

FreshId(sv) == CHOOSE i \in 1..Len(IdOrder) :
                 /\ IdOrder[i] \notin DOMAIN sv.revs
                 /\ \A j \in 1..(i - 1) : IdOrder[j] \in DOMAIN sv.revs

\* A comment is [id, ver, dates]; the API names the first comment of a
\* review c1.
CommentData(c) == [t |-> "comment", v |-> c]
NewComment == [id |-> "c1", ver |-> 1, dates |-> "string"]
UpdatedComment(id) == [id |-> id, ver |-> 2, dates |-> "string"]

\* Whether the API answers the request with 2xx.  sub = "comments": the
\* request is for the comments of review id.
CanServe(sv, r) ==
  CASE r.sub = "comments" -> r.id \in DOMAIN sv.revs
    [] r.method = "post" -> ReviewIds \ DOMAIN sv.revs # {}
    [] r.method = "patch" -> r.id \in DOMAIN sv.revs /\ sv.revs[r.id] < MaxVer
    [] r.id # "" -> r.id \in DOMAIN sv.revs
    [] OTHER -> TRUE

\* The API's state after the request, and the body of its answer.
Serve(sv, r) ==
  CASE r.sub = "comments" -> sv
    [] r.method = "delete" -> [sv EXCEPT !.revs = MapDel(@, r.id)]
    [] r.method = "post" -> [sv EXCEPT !.revs = MapPut(@, IdOrder[FreshId(sv)], 1)]
    [] r.method = "patch" -> [sv EXCEPT !.revs[r.id] = @ + 1]
    [] OTHER -> sv

Body(sv, r) ==
  CASE r.sub = "comments" ->
         CommentData(IF r.method = "post" THEN NewComment ELSE UpdatedComment(r.cm))
    [] r.method = "delete" -> Blob("")
    [] r.method = "post" -> ReviewData(Payload(Serve(sv, r), IdOrder[FreshId(sv)]))
    [] r.id # "" -> ReviewData(Payload(Serve(sv, r), r.id))
    [] OTHER -> ListData(ServerList(sv))

(***************************************************************************)
(* ReviewService (services/reviewService.ts): the axios instance with its  *)
(* interceptors.  net.reqs[c] is the request call c has made through       *)
(* this.api: state "sent" (on the wire), "backoff" (retryRequest sleeps)   *)
(* or "idle"; retry is config._retry; sends counts the transmissions and   *)
(* answers lists the status of every answer so far.  net.requestQueue maps *)
(* a request key to the call whose promise it holds.                       *)
(***************************************************************************)
maxRetries == 3
retryDelay == 1000
retryableStatuses == {408, 429, 500, 502, 503, 504}
maxQueueSize == 100
headerTTL == 300000

NoReq ==
  [state |-> "idle", method |-> "", url |-> "", id |-> "", hasParams |-> FALSE,
   params |-> <<>>, rkey |-> "", retry |-> FALSE, retryCount |-> 0, delay |-> 0,
   wakeAt |-> 0, sends |-> 0, answers |-> <<>>, sub |-> "", cm |-> ""]

NewReq(method, url, id, hasParams, params, rkey) ==
  [NoReq EXCEPT !.state = "sent", !.method = method, !.url = url, !.id = id,
                !.hasParams = hasParams, !.params = params, !.rkey = rkey,
                !.sends = 1]

\* A request for the comments of a review (cm: the comment, "" for none).
NewCommentReq(method, id, cm) ==
  [NewReq(method, "/" \o id \o "/comments" \o (IF cm = "" THEN "" ELSE "/" \o cm),
          id, FALSE, <<>>, "")
     EXCEPT !.sub = "comments", !.cm = cm]

InitNet ==
  [reqs |-> [c \in CallIds |-> NoReq], requestQueue |-> [x \in {} |-> 0]]

\* ErrorHandler (utils/errorHandler.ts).  errorListeners is the Set of the
\* subscribed listeners, in insertion order (the order forEach visits them);
\* a listener of Throwing throws whenever it is called.  The other fields
\* observe: handled counts the calls of handle, received[l] is the number of
\* the last error listener l was called with, logged counts the console.error
\* calls of notifyListeners, thrown / returned are the argument and the
\* result of the last handle, arrived the errors handled since the history
\* was last cleared.
Listeners == {"l1", "l2", "l3"}
Throwing == {"l1"}

NoDetails == ErrorData("", "", 0)
NoThrown == [class |-> "", kind |-> "", status |-> 0]

InitErrorHandler ==
  [errorQueue |-> <<>>, errorListeners |-> <<>>,
   received |-> [l \in Listeners |-> 0], handled |-> 0, logged |-> 0,
   thrown |-> NoThrown, returned |-> NoDetails, arrived |-> <<>>]

\* An answer: kind "ok", "status" (an HTTP error status), "timeout"
\* (ECONNABORTED) or "network" (ERR_NETWORK); etag and maxAge (-1: no
\* Cache-Control max-age) are headers of an "ok" answer.
Answer(kind, status, etag, maxAge) ==
  [kind |-> kind, status |-> status, etag |-> etag, maxAge |-> maxAge]

Ok == Answer("ok", 200, FALSE, -1)
Status(n) == Answer("status", n, FALSE, -1)

\* (a policy that retries every error status)
shouldRetryAnyStatus(r, a) == ~r.retry /\ a.kind = "status"

shouldRetry(r, a) ==
  IF r.retry THEN FALSE
  ELSE IF a.kind # "status" THEN FALSE
  ELSE a.status \in retryableStatuses

\* getCacheKey(config), as [has, key]: an empty url gives null
getCacheKey(r) ==
  IF r.url = "" THEN [has |-> FALSE, key |-> ""]
  ELSE [has |-> TRUE,
        key |-> r.method \o ":" \o r.url
                  \o (IF r.hasParams THEN ":" \o Stringify(r.params) ELSE "")]

getCacheTTL(a) == IF a.maxAge >= 0 THEN a.maxAge * 1000 ELSE headerTTL

\* The statuses handleAxiosError has a case for.
ListedStatuses == {400, 401, 403, 404, 409, 422, 429, 500, 502, 503, 504}

\* handleAxiosError: the code of the ErrorDetails (an error of another kind
\* has no response and a code other than ECONNABORTED, ETIMEDOUT, ERR_NETWORK)
ErrorCode(a) ==
  CASE a.kind = "timeout" -> "TIMEOUT_ERROR"
    [] a.kind = "network" -> "NETWORK_ERROR"
    [] a.status \in {400, 422} -> "VALIDATION_ERROR"
    [] a.status = 401 -> "UNAUTHORIZED"
    [] a.status = 403 -> "FORBIDDEN"
    [] a.status = 404 -> "NOT_FOUND"
    [] a.status = 409 -> "CONFLICT"
    [] a.status = 429 -> "RATE_LIMIT"
    [] a.status = 500 -> "SERVER_ERROR"
    [] a.status \in {502, 503, 504} -> "SERVICE_UNAVAILABLE"
    [] a.kind = "status" /\ a.status \notin ListedStatuses
         -> "HTTP_" \o ToString(a.status)
    [] OTHER -> "UNKNOWN_ERROR"

handleAxiosError(a) ==
  ErrorData("ErrorDetails", ErrorCode(a), IF a.kind = "status" THEN a.status ELSE 0)

\* (a queue that turns the newest error away when it is full)
queueErrorDropsNewest(eh, e) ==
  IF Len(eh.errorQueue) >= maxQueueSize THEN eh
  ELSE [eh EXCEPT !.errorQueue = Append(@, e)]

queueError(eh, e) ==
  LET q == Append(eh.errorQueue, e)
  IN [eh EXCEPT !.errorQueue = IF Len(q) > maxQueueSize THEN Tail(q) ELSE q]

handleGenericError == ErrorData("ErrorDetails", "GENERIC_ERROR", 0)
handleUnknownError == ErrorData("ErrorDetails", "UNKNOWN_ERROR", 0)

\* What is passed to handle: an AxiosError (made from answer a), another
\* Error, or a value that is no Error.
AxiosError(a) == [class |-> "AxiosError", kind |-> a.kind, status |-> a.status]
GenericError == [class |-> "Error", kind |-> "", status |-> 0]
NonError == [class |-> "other", kind |-> "", status |-> 0]

\* the branches of handle
Normalize(e) ==
  CASE e.class = "AxiosError" -> handleAxiosError(e)
    [] e.class = "Error" -> handleGenericError
    [] OTHER -> handleUnknownError

\* (a listener's exception leaves forEach: the listeners after it are skipped)
AfterThrowPropagates(rest) == <<>>

\* the catch of notifyListeners: forEach goes on with the listeners after it
AfterThrow(rest) == rest

\* notifyListeners(error) over the listeners ls still to visit
RECURSIVE notifyFrom(_, _)
notifyFrom(eh, ls) ==
  IF ls = <<>> THEN eh
  ELSE LET l == Head(ls)
           called == [eh EXCEPT !.received[l] = eh.handled]
       IN IF l \in Throwing
          THEN notifyFrom([called EXCEPT !.logged = @ + 1], AfterThrow(Tail(ls)))
          ELSE notifyFrom(called, Tail(ls))

notifyListeners(eh) == notifyFrom(eh, eh.errorListeners)

\* errorHandler.handle(error)
handle(eh, e) ==
  LET d == Normalize(e)
      queued == queueError([eh EXCEPT !.handled = @ + 1, !.thrown = e,
                                      !.arrived = Append(@, d)], d)
  IN [notifyListeners(queued) EXCEPT !.returned = d]

\* subscribe(listener), and the function it returns
subscribe(eh, l) ==
  IF \E i \in 1..Len(eh.errorListeners) : eh.errorListeners[i] = l THEN eh
  ELSE [eh EXCEPT !.errorListeners = Append(@, l)]

unsubscribe(eh, l) ==
  [eh EXCEPT !.errorListeners = SelectSeq(@, LAMBDA x : x # l)]

clearErrorHistory(eh) == [eh EXCEPT !.errorQueue = <<>>]

\* (a finally() that leaves the key in the map)
SettleNetKeepsKey(n, o) == [n EXCEPT !.reqs[o] = NoReq]

\* The promise of request o settles with ret: the finally() of
\* requestWithDeduplication removes its key, every call awaiting it resumes.
SettleNet(n, o) ==
  [n EXCEPT !.reqs[o] = NoReq,
            !.requestQueue = IF n.reqs[o].rkey = "" THEN @ ELSE MapDel(@, n.reqs[o].rkey)]

SettleCalls(cs, o, ret) ==
  [c \in CallIds |->
     IF cs[c].wait = "net" /\ cs[c].req = o
     THEN [cs[c] EXCEPT !.wait = "none", !.ret = ret]
     ELSE cs[c]]

\* The answer to request o arrives and the response interceptors run.
NetRespond(o, a) ==
  LET r == [net.reqs[o] EXCEPT !.answers = Append(@, a.status)]
      n == [net EXCEPT !.reqs[o] = r]
      ck == getCacheKey(r)
  IN /\ net.reqs[o].state = "sent"
     /\ IF a.kind = "ok"
        THEN /\ CanServe(server, r)
             /\ server' = Serve(server, r)
             /\ IF a.etag /\ ck.has
                THEN /\ QueueRoom
                     /\ cache' = SetSync(cache, ck.key, Body(server, r), getCacheTTL(a), now, 0)
                ELSE cache' = cache
             /\ net' = SettleNet(n, o)
             /\ calls' = SettleCalls(calls, o, RetVal(Body(server, r)))
             /\ UNCHANGED errorHandler
        ELSE IF shouldRetry(r, a)
        THEN \* retryRequest
             IF r.retryCount >= maxRetries
             THEN /\ net' = SettleNet(n, o)
                  /\ calls' = SettleCalls(calls, o,
                                Ret(FALSE, TRUE, ErrorData("AxiosError", "", a.status)))
                  /\ UNCHANGED <<cache, server, errorHandler>>
             ELSE /\ net' = [n EXCEPT !.reqs[o] =
                              [r EXCEPT !.retry = TRUE,
                                        !.retryCount = @ + 1,
                                        !.delay = retryDelay * (2 ^ r.retryCount),
                                        !.wakeAt = now + retryDelay * (2 ^ r.retryCount),
                                        !.state = "backoff"]]
                  /\ UNCHANGED <<cache, calls, server, errorHandler>>
        ELSE /\ Len(errorHandler.errorQueue) < MaxErrors
             /\ errorHandler' = handle(errorHandler, AxiosError(a))
             /\ net' = SettleNet(n, o)
             /\ calls' = SettleCalls(calls, o, Ret(FALSE, TRUE, handleAxiosError(a)))
             /\ UNCHANGED <<cache, server>>
     /\ UNCHANGED <<now, last, setExpiry, keyVars, uiVars>>

\* The timer of retryRequest fires: this.api.request(config)
RetryFire(o) ==
  /\ net.reqs[o].state = "backoff"
  /\ now >= net.reqs[o].wakeAt
  /\ net' = [net EXCEPT !.reqs[o].state = "sent", !.reqs[o].sends = @ + 1]
  /\ UNCHANGED <<cacheVars, keyVars, errorHandler, server, uiVars>>

(***************************************************************************)
(* ReviewService: the operations.  A call runs from one await to the next  *)
(* in one step; pc names the await it is suspended at.                     *)
(***************************************************************************)
listTTL == 300000
reviewTTL == 600000

\* What the callers and the API are taken from.
ServiceIds == {"r1"}
OpenFilter == <<Prop("status", "[\"open\"]")>>
ServiceFilters == {<<>>, OpenFilter}
ServiceAnswers == {Ok}
ServerComments == {"absent", "plain"}
Readers == CallIds     \* the calls that read
Writers == {2}         \* the calls that also create and update

\* What the retried requests are answered with.
RetryAnswers ==
  {Ok, Answer("ok", 200, TRUE, -1), Status(503), Status(404),
   Answer("timeout", 0, FALSE, -1), Answer("network", 0, FALSE, -1)}

\* The literal key createReview / updateReview / deleteReview invalidate.
EmptyFiltersKey == "reviews:{}"

\* transformReview: the dates become Date objects, comments defaults to [].
\* Called through Array.prototype.map it runs without `this`, and evaluating
\* this.transformComment throws a TypeError when the payload has comments.
transformThrows(r, bound) == ~bound /\ r.comments # "absent"

transformReview(r) == [r EXCEPT !.dates = "Date", !.comments = "plain"]

TypeError == Ret(FALSE, TRUE, ErrorData("TypeError", "", 0))

\* The async function returns (or throws, ret.ok = FALSE): its caller resumes,
\* or the promise handed to the outside world settles.
Return(c, ret) ==
  IF c.stack = <<>>
  THEN [IdleCall EXCEPT !.op = c.op, !.pc = "done", !.ret = ret, !.id = c.id,
                        !.after = c.after, !.seen = c.seen]
  ELSE [c EXCEPT !.pc = Head(c.stack), !.stack = Tail(c.stack), !.wait = "none",
                 !.ret = ret]

\* (mutant) a read that goes to the network whatever the cache returned
CacheHitIgnored(ret) == FALSE

\* `if (cached) return cached`
CacheHit(ret) == ret.has

At(cid, pc) == calls[cid].pc = pc /\ calls[cid].wait = "none"

\* `await cacheManager.getAsync(key)` at the head of getReviews / getReview
EnterCachedRead(cid, c, pc, key) ==
  /\ QueueRoom
  /\ cache' = GetAsyncSync(cache, key, now, cid)
  /\ calls' = [calls EXCEPT ![cid] =
                 [c EXCEPT !.pc = pc, !.key = key, !.seen = AsyncView(cache, key, now),
                           !.wait = IF GetAsyncAwaits(cache, key, now) THEN "db" ELSE "none",
                           !.ret = LET g == GetResult(cache, key, now)
                                   IN Ret(TRUE, g.has, g.data)]]

\* `await this.api.<method>(url)`
EnterRequest(cid, c, pc, r) ==
  /\ net.reqs[cid].state = "idle"
  /\ net' = [net EXCEPT !.reqs[cid] = r]
  /\ calls' = [calls EXCEPT ![cid] = [c EXCEPT !.pc = pc, !.wait = "net", !.req = cid]]

\* `await cacheManager.set(key, data, {ttl})`
AwaitSet(cid, c, pc, key, data, ttl) ==
  /\ QueueRoom
  /\ cache' = SetSync(cache, key, data, ttl, now, cid)
  /\ calls' = [calls EXCEPT ![cid] =
                 [c EXCEPT !.pc = pc, !.tmp = data,
                           !.wait = IF SetAwaits(cache) THEN "db" ELSE "none"]]

\* `await cacheManager.delete(key)`
AwaitDelete(cid, c, pc, key) ==
  /\ QueueRoom
  /\ cache' = DeleteSync(cache, key)
  /\ calls' = [calls EXCEPT ![cid] = [c EXCEPT !.pc = pc, !.wait = "none"]]

idleRest == <<now, last, setExpiry, keyVars, errorHandler, server, uiVars>>

\* reviewService.getReviews(filters)
EnterGetReviews(cid, c, f) ==
  EnterCachedRead(cid, [c EXCEPT !.f = f], "getReviews.cached", ListCacheKey(f))

getReviews(cid, f) ==
  /\ Free(cid)
  /\ EnterGetReviews(cid, [IdleCall EXCEPT !.op = "getReviews"], f)
  /\ UNCHANGED <<net, idleRest>>

\* after `await cacheManager.getAsync(cacheKey)`: a hit is returned, else
\* requestWithDeduplication joins the promise in flight or makes the request
GetReviewsCached(cid) ==
  LET c == calls[cid]
      rk == RequestKey(c.f)
  IN /\ At(cid, "getReviews.cached")
     /\ IF CacheHit(c.ret)
        THEN /\ calls' = [calls EXCEPT ![cid] = Return(c, c.ret)]
             /\ UNCHANGED net
        ELSE IF rk \in DOMAIN net.requestQueue
        THEN /\ calls' = [calls EXCEPT ![cid] =
                            [c EXCEPT !.pc = "getReviews.response", !.wait = "net",
                                      !.req = net.requestQueue[rk]]]
             /\ UNCHANGED net
        ELSE /\ net.reqs[cid].state = "idle"
             /\ net' = [net EXCEPT !.reqs[cid] = NewReq("get", "", "", TRUE, c.f, rk),
                                   !.requestQueue = MapPut(@, rk, cid)]
             /\ calls' = [calls EXCEPT ![cid] =
                            [c EXCEPT !.pc = "getReviews.response", !.wait = "net",
                                      !.req = cid]]
     /\ UNCHANGED <<cache, idleRest>>

\* after `await this.requestWithDeduplication(...)`
GetReviewsResponse(cid) ==
  LET c == calls[cid]
      raw == c.ret.data.v
  IN /\ At(cid, "getReviews.response")
     /\ IF ~c.ret.ok
        THEN /\ calls' = [calls EXCEPT ![cid] = Return(c, c.ret)]
             /\ UNCHANGED cache
        ELSE IF \E i \in 1..Len(raw) : transformThrows(raw[i], FALSE)
        THEN /\ calls' = [calls EXCEPT ![cid] = Return(c, TypeError)]
             /\ UNCHANGED cache
        ELSE AwaitSet(cid, c, "getReviews.stored", c.key,
                      ListData([i \in 1..Len(raw) |-> transformReview(raw[i])]), listTTL)
     /\ UNCHANGED <<net, idleRest>>

\* after `await cacheManager.set(cacheKey, reviews, ...)`
GetReviewsStored(cid) ==
  /\ At(cid, "getReviews.stored")
  /\ calls' = [calls EXCEPT ![cid] = Return(calls[cid], RetVal(calls[cid].tmp))]
  /\ UNCHANGED <<cache, net, idleRest>>

\* reviewService.getReview(id)
EnterGetReview(cid, c, id) ==
  EnterCachedRead(cid, [c EXCEPT !.id = id], "getReview.cached", ReviewCacheKey(id))

getReview(cid, id) ==
  /\ Free(cid)
  /\ EnterGetReview(cid, [IdleCall EXCEPT !.op = "getReview"], id)
  /\ UNCHANGED <<net, idleRest>>

GetReviewCached(cid) ==
  LET c == calls[cid]
  IN /\ At(cid, "getReview.cached")
     /\ IF CacheHit(c.ret)
        THEN /\ calls' = [calls EXCEPT ![cid] = Return(c, c.ret)]
             /\ UNCHANGED net
        ELSE EnterRequest(cid, c, "getReview.response",
                          NewReq("get", "/" \o c.id, c.id, FALSE, <<>>, ""))
     /\ UNCHANGED <<cache, idleRest>>

GetReviewResponse(cid) ==
  LET c == calls[cid]
  IN /\ At(cid, "getReview.response")
     /\ IF ~c.ret.ok
        THEN /\ calls' = [calls EXCEPT ![cid] = Return(c, c.ret)]
             /\ UNCHANGED cache
        ELSE IF transformThrows(c.ret.data.v, TRUE)
        THEN /\ calls' = [calls EXCEPT ![cid] = Return(c, TypeError)]
             /\ UNCHANGED cache
        ELSE AwaitSet(cid, c, "getReview.stored", c.key,
                      ReviewData(transformReview(c.ret.data.v)), reviewTTL)
     /\ UNCHANGED <<net, idleRest>>

GetReviewStored(cid) ==
  /\ At(cid, "getReview.stored")
  /\ calls' = [calls EXCEPT ![cid] = Return(calls[cid], RetVal(calls[cid].tmp))]
  /\ UNCHANGED <<cache, net, idleRest>>

\* reviewService.createReview(review)
EnterCreateReview(cid, c) ==
  EnterRequest(cid, c, "createReview.response", NewReq("post", "", "", FALSE, <<>>, ""))

createReview(cid) ==
  /\ Free(cid)
  /\ ReviewIds \ DOMAIN server.revs # {}
  /\ EnterCreateReview(cid, [IdleCall EXCEPT !.op = "createReview"])
  /\ UNCHANGED <<cache, idleRest>>

\* after `await this.api.post(...)`: `await cacheManager.delete('reviews:{}')`
CreateReviewResponse(cid) ==
  LET c == calls[cid]
  IN /\ At(cid, "createReview.response")
     /\ IF ~c.ret.ok
        THEN /\ calls' = [calls EXCEPT ![cid] = Return(c, c.ret)]
             /\ UNCHANGED cache
        ELSE IF transformThrows(c.ret.data.v, TRUE)
        THEN /\ calls' = [calls EXCEPT ![cid] = Return(c, TypeError)]
             /\ UNCHANGED cache
        ELSE AwaitDelete(cid, [c EXCEPT !.tmp = ReviewData(transformReview(c.ret.data.v))],
                         "createReview.deleted", EmptyFiltersKey)
     /\ UNCHANGED <<net, idleRest>>

CreateReviewDeleted(cid) ==
  /\ At(cid, "createReview.deleted")
  /\ calls' = [calls EXCEPT ![cid] = Return(calls[cid], RetVal(calls[cid].tmp))]
  /\ UNCHANGED <<cache, net, idleRest>>

\* reviewService.updateReview(id, updates)
EnterUpdateReview(cid, c, id) ==
  EnterRequest(cid, [c EXCEPT !.id = id], "updateReview.response",
               NewReq("patch", "/" \o id, id, FALSE, <<>>, ""))

updateReview(cid, id) ==
  /\ Free(cid)
  /\ id \in DOMAIN server.revs => server.revs[id] < MaxVer
  /\ EnterUpdateReview(cid, [IdleCall EXCEPT !.op = "updateReview"], id)
  /\ UNCHANGED <<cache, idleRest>>

\* after `await this.api.patch(...)`: `await cacheManager.delete(`review:${id}`)`
UpdateReviewResponse(cid) ==
  LET c == calls[cid]
  IN /\ At(cid, "updateReview.response")
     /\ IF ~c.ret.ok
        THEN /\ calls' = [calls EXCEPT ![cid] = Return(c, c.ret)]
             /\ UNCHANGED cache
        ELSE IF transformThrows(c.ret.data.v, TRUE)
        THEN /\ calls' = [calls EXCEPT ![cid] = Return(c, TypeError)]
             /\ UNCHANGED cache
        ELSE AwaitDelete(cid, [c EXCEPT !.tmp = ReviewData(transformReview(c.ret.data.v))],
                         "updateReview.deleted1", ReviewCacheKey(c.id))
     /\ UNCHANGED <<net, idleRest>>

\* `await cacheManager.delete('reviews:{}')`
UpdateReviewDeleted1(cid) ==
  /\ At(cid, "updateReview.deleted1")
  /\ AwaitDelete(cid, calls[cid], "updateReview.deleted2", EmptyFiltersKey)
  /\ UNCHANGED <<net, idleRest>>

UpdateReviewDeleted2(cid) ==
  /\ At(cid, "updateReview.deleted2")
  /\ calls' = [calls EXCEPT ![cid] = Return(calls[cid], RetVal(calls[cid].tmp))]
  /\ UNCHANGED <<cache, net, idleRest>>

\* The caller has seen the promise of its call settle.
Collect(cid) ==
  /\ calls[cid].pc = "done"
  /\ calls' = [c \in CallIds |->
                 IF c = cid THEN IdleCall
                 ELSE [calls[c] EXCEPT !.after = IF @ = cid THEN 0 ELSE @]]
  /\ UNCHANGED <<now, cache, last, setExpiry, keyVars, httpVars, uiVars>>


\* transformComment, called as this.transformComment(response.data): the
\* dates become Date objects.
transformComment(c) == [c EXCEPT !.dates = "Date"]

\* reviewService.deleteReview(id)
EnterDeleteReview(cid, c, id) ==
  EnterRequest(cid, [c EXCEPT !.id = id], "deleteReview.response",
               NewReq("delete", "/" \o id, id, FALSE, <<>>, ""))

deleteReview(cid, id) ==
  /\ Free(cid)
  /\ EnterDeleteReview(cid, [IdleCall EXCEPT !.op = "deleteReview"], id)
  /\ UNCHANGED <<cache, idleRest>>

\* after `await this.api.delete(...)`: `await cacheManager.delete(`review:${id}`)`
DeleteReviewResponse(cid) ==
  LET c == calls[cid]
  IN /\ At(cid, "deleteReview.response")
     /\ IF ~c.ret.ok
        THEN /\ calls' = [calls EXCEPT ![cid] = Return(c, c.ret)]
             /\ UNCHANGED cache
        ELSE AwaitDelete(cid, c, "deleteReview.deleted1", ReviewCacheKey(c.id))
     /\ UNCHANGED <<net, idleRest>>

\* `await cacheManager.delete('reviews:{}')`
DeleteReviewDeleted1(cid) ==
  /\ At(cid, "deleteReview.deleted1")
  /\ AwaitDelete(cid, calls[cid], "deleteReview.deleted2", EmptyFiltersKey)
  /\ UNCHANGED <<net, idleRest>>

DeleteReviewDeleted2(cid) ==
  /\ At(cid, "deleteReview.deleted2")
  /\ calls' = [calls EXCEPT ![cid] = Return(calls[cid], RetNull)]
  /\ UNCHANGED <<cache, net, idleRest>>

\* reviewService.addComment(reviewId, comment)
EnterAddComment(cid, c, id) ==
  EnterRequest(cid, [c EXCEPT !.id = id], "addComment.response",
               NewCommentReq("post", id, ""))

\* reviewService.updateComment(reviewId, commentId, updates)
EnterUpdateComment(cid, c, id, cm) ==
  EnterRequest(cid, [c EXCEPT !.id = id, !.cm = cm], "updateComment.response",
               NewCommentReq("patch", id, cm))

\* after `await this.api.post / patch(...)` of addComment / updateComment:
\* `await cacheManager.delete(`review:${reviewId}`)`
CommentResponse(cid) ==
  LET c == calls[cid]
  IN /\ At(cid, "addComment.response") \/ At(cid, "updateComment.response")
     /\ IF ~c.ret.ok
        THEN /\ calls' = [calls EXCEPT ![cid] = Return(c, c.ret)]
             /\ UNCHANGED cache
        ELSE AwaitDelete(cid, [c EXCEPT !.tmp = CommentData(transformComment(c.ret.data.v))],
                         "comment.deleted", ReviewCacheKey(c.id))
     /\ UNCHANGED <<net, idleRest>>

CommentDeleted(cid) ==
  /\ At(cid, "comment.deleted")
  /\ calls' = [calls EXCEPT ![cid] = Return(calls[cid], RetVal(calls[cid].tmp))]
  /\ UNCHANGED <<cache, net, idleRest>>
(***************************************************************************)
(* useReviewStore (store/reviewStore.ts) and the ReviewProvider mounted    *)
(* over it (contexts/ReviewContext.tsx).  A filters object is [ref, props]: *)
(* ref is its identity (what === compares), props its properties.          *)
(***************************************************************************)
FilterObject(ref, props) == [ref |-> ref, props |-> props]

NoError == [has |-> FALSE, code |-> ""]
StoreError(code) == [has |-> TRUE, code |-> code]

\* initialState; lastFetchTime -1 is null.  restored says that the state was
\* rehydrated by a reload and fetchReviews has not been called since.
InitStore ==
  [reviews |-> <<>>, selectedReview |-> NoSelected,
   filters |-> FilterObject("initialState", <<>>), loading |-> FALSE,
   error |-> NoError, lastFetchTime |-> -1, cacheVersion |-> 1,
   restored |-> FALSE]

\* The useState values of the provider, mounted with the useStore prop set;
\* ticks counts the callbacks of the useReviewSync interval, slice is the
\* currentSlice of the store subscription.
InitProvider ==
  [useStore |-> TRUE, localReviews |-> <<>>, currentReview |-> NoSelected,
   filters |-> FilterObject("useState", <<>>), loading |-> FALSE,
   error |-> NoError, ticks |-> 0, slice |-> <<>>]

\* What the views pass: the objects FilterPanel builds, the route's ids.
PanelObjects == {FilterObject("panel", OpenFilter)}
NoOptions == [has |-> FALSE, obj |-> NoObject]
Options(obj) == [has |-> TRUE, obj |-> obj]
StoreOptions == {NoOptions} \cup {Options(o) : o \in PanelObjects}
StoreForce == {FALSE}
ListCallers == {1}     \* the calls that fetch lists
StoreIds == {"r1", "r2"}
StoreAnswers == {Ok}

storeRest == <<now, last, setExpiry, keyVars, errorHandler, server>>

\* The listener the provider subscribes with useStore set (subscribeWithSelector
\* on state.reviews, equalityFn: the lengths are equal): it runs at a state
\* replacement whose reviews differ in length from the slice it saw last.
Notify(p, s) ==
  IF p.useStore /\ Len(s.reviews) # Len(p.slice)
  THEN [p EXCEPT !.slice = s.reviews, !.localReviews = s.reviews]
  ELSE p

Subscription == provider' = Notify(provider, store')

\* The call of the same operation in progress in another slot (0: none).
InProgress(cid, op) ==
  IF \E d \in CallIds \ {cid} : calls[d].op = op /\ calls[d].pc # "done"
  THEN CHOOSE d \in CallIds \ {cid} : calls[d].op = op /\ calls[d].pc # "done"
  ELSE 0

Push(c, pc) == [c EXCEPT !.stack = <<pc>> \o @]

\* store.fetchReviews(options, force)
EnterFetchReviews(cid, c, options, force) ==
  LET eff == IF options.has THEN options.obj ELSE store.filters
      c1 == [c EXCEPT !.opts = eff, !.had = store.filters, !.force = force,
                      !.before = Snapshot(store), !.first = store.restored]
  IN IF ~force
     THEN /\ EnterCachedRead(cid, c1, "fetchReviews.cached", ListCacheKey(eff.props))
          /\ store' = [store EXCEPT !.restored = FALSE]
     ELSE /\ store' = [store EXCEPT !.loading = TRUE, !.error = NoError,
                                    !.restored = FALSE]
          /\ EnterGetReviews(cid, Push(c1, "fetchReviews.fetched"), eff.props)

fetchReviews(cid, options, force) ==
  /\ Free(cid)
  /\ EnterFetchReviews(cid, [IdleCall EXCEPT !.op = "fetchReviews"], options, force)
  /\ UNCHANGED <<net, storeRest>>
  /\ Subscription

\* after `await cacheManager.getAsync(cacheKey)`
FetchReviewsCached(cid) ==
  LET c == calls[cid]
  IN /\ At(cid, "fetchReviews.cached")
     /\ IF c.ret.has
        THEN /\ store' = [store EXCEPT !.reviews = c.ret.data.v, !.loading = FALSE]
             /\ calls' = [calls EXCEPT ![cid] = Return(c, RetNull)]
             /\ UNCHANGED cache
        ELSE /\ store' = [store EXCEPT !.loading = TRUE, !.error = NoError]
             /\ EnterGetReviews(cid, Push(c, "fetchReviews.fetched"), c.opts.props)
     /\ UNCHANGED <<net, storeRest>>
     /\ Subscription

\* after `await reviewService.getReviews(...)`: the catch block, or
\* `await cacheManager.set(cacheKey, reviews, ...)`
FetchReviewsFetched(cid) ==
  LET c == calls[cid]
  IN /\ At(cid, "fetchReviews.fetched")
     /\ IF ~c.ret.ok
        THEN /\ store' = [store EXCEPT !.error = StoreError("FETCH_REVIEWS_ERROR"),
                                       !.loading = FALSE]
             /\ calls' = [calls EXCEPT ![cid] = Return(c, RetNull)]
             /\ UNCHANGED cache
        ELSE /\ AwaitSet(cid, c, "fetchReviews.stored", ListCacheKey(c.opts.props),
                         c.ret.data, listTTL)
             /\ UNCHANGED store
     /\ UNCHANGED <<net, storeRest>>
     /\ Subscription

\* after the set: `if (currentState.filters === (options || state.filters))`
FetchReviewsStored(cid) ==
  LET c == calls[cid]
  IN /\ At(cid, "fetchReviews.stored")
     /\ store' = IF store.filters.ref = c.opts.ref
                 THEN [store EXCEPT !.reviews = c.tmp.v, !.loading = FALSE,
                                    !.lastFetchTime = now]
                 ELSE store
     /\ calls' = [calls EXCEPT ![cid] = Return(c, RetNull)]
     /\ UNCHANGED <<cache, net, storeRest>>
     /\ Subscription

\* store.fetchReview(id, force)
EnterFetchReview(cid, c, id, force) ==
  LET c1 == [c EXCEPT !.id = id, !.force = force, !.before = Snapshot(store)]
  IN IF ~force
     THEN /\ EnterCachedRead(cid, c1, "fetchReview.cached", ReviewCacheKey(id))
          /\ UNCHANGED store
     ELSE /\ store' = [store EXCEPT !.loading = TRUE, !.error = NoError]
          /\ EnterGetReview(cid, Push(c1, "fetchReview.fetched"), id)

fetchReview(cid, id, force) ==
  /\ Free(cid)
  /\ EnterFetchReview(cid, [IdleCall EXCEPT !.op = "fetchReview",
                                            !.after = InProgress(cid, "fetchReview")],
                      id, force)
  /\ UNCHANGED <<net, storeRest>>
  /\ Subscription

FetchReviewCached(cid) ==
  LET c == calls[cid]
  IN /\ At(cid, "fetchReview.cached")
     /\ IF c.ret.has
        THEN /\ store' = [store EXCEPT !.selectedReview = Selected(c.ret.data.v),
                                       !.loading = FALSE]
             /\ calls' = [calls EXCEPT ![cid] = Return(c, c.ret)]
             /\ UNCHANGED cache
        ELSE /\ store' = [store EXCEPT !.loading = TRUE, !.error = NoError]
             /\ EnterGetReview(cid, Push(c, "fetchReview.fetched"), c.id)
     /\ UNCHANGED <<net, storeRest>>
     /\ Subscription

FetchReviewFetched(cid) ==
  LET c == calls[cid]
  IN /\ At(cid, "fetchReview.fetched")
     /\ IF ~c.ret.ok
        THEN /\ store' = [store EXCEPT !.error = StoreError("FETCH_REVIEW_ERROR"),
                                       !.loading = FALSE]
             /\ calls' = [calls EXCEPT ![cid] = Return(c, RetNull)]
             /\ UNCHANGED cache
        ELSE /\ AwaitSet(cid, c, "fetchReview.stored", ReviewCacheKey(c.id),
                         c.ret.data, reviewTTL)
             /\ UNCHANGED store
     /\ UNCHANGED <<net, storeRest>>
     /\ Subscription

FetchReviewStored(cid) ==
  LET c == calls[cid]
  IN /\ At(cid, "fetchReview.stored")
     /\ store' = [store EXCEPT !.selectedReview = Selected(c.tmp.v), !.loading = FALSE]
     /\ calls' = [calls EXCEPT ![cid] = Return(c, RetVal(c.tmp))]
     /\ UNCHANGED <<cache, net, storeRest>>
     /\ Subscription

\* store.updateReview(id, updates)
EnterStoreUpdateReview(cid, c, id) ==
  EnterUpdateReview(cid, Push([c EXCEPT !.before = Snapshot(store)],
                              "storeUpdateReview.updated"), id)

storeUpdateReview(cid, id) ==
  /\ Free(cid)
  /\ id \in DOMAIN server.revs => server.revs[id] < MaxVer
  /\ EnterStoreUpdateReview(cid, [IdleCall EXCEPT !.op = "store.updateReview"], id)
  /\ UNCHANGED <<cache, store, storeRest>>
  /\ Subscription

\* after `await reviewService.updateReview(id, updates)`
StoreUpdateReviewUpdated(cid) ==
  LET c == calls[cid]
      updated == c.ret.data.v
      newReviews == [i \in 1..Len(store.reviews) |->
                       IF store.reviews[i].id = c.id THEN updated ELSE store.reviews[i]]
      newSelected == IF store.selectedReview.has /\ store.selectedReview.v.id = c.id
                     THEN Selected(updated) ELSE store.selectedReview
  IN /\ At(cid, "storeUpdateReview.updated")
     /\ IF c.ret.ok
        THEN /\ QueueRoom
             /\ cache' = SetSync(SetSync(cache, "reviews", ListData(newReviews),
                                         listTTL, now, 0),
                                 ReviewCacheKey(c.id), ReviewData(updated),
                                 reviewTTL, now, 0)
             /\ store' = [store EXCEPT !.reviews = newReviews,
                                       !.selectedReview = newSelected]
             /\ calls' = [calls EXCEPT ![cid] = Return(c, RetNull)]
        ELSE /\ store' = [store EXCEPT !.error = StoreError("UPDATE_REVIEW_ERROR")]
             /\ calls' = [calls EXCEPT ![cid] = Return(c, c.ret)]
             /\ UNCHANGED cache
     /\ UNCHANGED <<net, storeRest>>
     /\ Subscription

\* The provider's fetchReviews(options) with useStore set:
\* `await store.fetchReviews(options || filters, false)`
providerFetchReviews(cid, options) ==
  /\ Free(cid)
  /\ provider.useStore
  /\ EnterFetchReviews(cid, Push([IdleCall EXCEPT !.op = "provider.fetchReviews"],
                                 "providerFetchReviews.fetched"),
                       Options(IF options.has THEN options.obj ELSE provider.filters),
                       FALSE)
  /\ UNCHANGED <<net, storeRest>>
  /\ Subscription

ProviderFetchReviewsFetched(cid) ==
  /\ At(cid, "providerFetchReviews.fetched")
  /\ calls' = [calls EXCEPT ![cid] = Return(calls[cid], RetNull)]
  /\ UNCHANGED <<cache, net, store, storeRest>>
  /\ Subscription

\* The provider's setFilters(newFilters) with useStore set
providerSetFilters(obj) ==
  /\ provider.useStore
  /\ provider' = [provider EXCEPT !.filters = obj]
  /\ store' = [store EXCEPT !.filters = obj]
  /\ UNCHANGED <<cacheVars, keyVars, httpVars>>


(***************************************************************************)
(* Comments in the store.  A comment list goes by its name: "plain" is [], *)
(* "c1" is [c1], "c1u" is [c1 as updated].                                 *)
(***************************************************************************)
CommentIds == {"c1"}

\* [...comments, newComment]
AppendComment(cs, cmt) == CASE cs = "plain" -> cmt.id

\* updateComments(comments): the comment of that id is replaced
updateComments(cs, updated) ==
  IF cs \in {"c1", "c1u"} /\ updated.id = "c1" THEN "c1u" ELSE cs

HasReview(rs, id) == \E i \in 1..Len(rs) : rs[i].id = id

\* state.reviews.find(r => r.id === id)
FindReview(rs, id) == rs[CHOOSE i \in 1..Len(rs) : rs[i].id = id /\ \A j \in 1..(i - 1) : rs[j].id # id]

\* state.reviews.map(r => r.id === id ? newReview : r)
ReplaceReview(rs, id, newReview) ==
  [i \in 1..Len(rs) |-> IF rs[i].id = id THEN newReview ELSE rs[i]]

\* The reviews of the store have room for another comment.
CommentRoom(id) ==
  \A i \in 1..Len(store.reviews) :
    store.reviews[i].id = id => store.reviews[i].comments = "plain"

\* store.addComment(reviewId, comment)
EnterStoreAddComment(cid, c, id) ==
  EnterAddComment(cid, Push([c EXCEPT !.before = Snapshot(store)],
                            "storeAddComment.added"), id)

storeAddComment(cid, id) ==
  /\ Free(cid)
  /\ CommentRoom(id)
  /\ EnterStoreAddComment(cid, [IdleCall EXCEPT !.op = "store.addComment"], id)
  /\ UNCHANGED <<cache, store, storeRest>>
  /\ Subscription

\* store.updateComment(reviewId, commentId, updates)
EnterStoreUpdateComment(cid, c, id, cm) ==
  EnterUpdateComment(cid, Push([c EXCEPT !.before = Snapshot(store)],
                               "storeUpdateComment.updated"), id, cm)

storeUpdateComment(cid, id, cm) ==
  /\ Free(cid)
  /\ EnterStoreUpdateComment(cid, [IdleCall EXCEPT !.op = "store.updateComment"], id, cm)
  /\ UNCHANGED <<cache, store, storeRest>>
  /\ Subscription

\* (a set that writes reviews only, selectedReview being left to a later one)
CommentAppliedReviewsOnly(s, id, newReview) ==
  [s EXCEPT !.reviews = ReplaceReview(s.reviews, id, newReview)]

\* The set(...) of addComment / updateComment with the review rebuilt as
\* newReview, when state.reviews holds the review.
CommentApplied(s, id, newReview) ==
  [s EXCEPT !.reviews = ReplaceReview(s.reviews, id, newReview),
            !.selectedReview = IF s.selectedReview.has /\ s.selectedReview.v.id = id
                               THEN Selected(newReview) ELSE @]

\* after `await reviewService.addComment(...)`; the catch block rethrows
StoreAddCommentAdded(cid) ==
  LET c == calls[cid]
      r == FindReview(store.reviews, c.id)
  IN /\ At(cid, "storeAddComment.added")
     /\ IF c.ret.ok /\ HasReview(store.reviews, c.id)
        THEN /\ QueueRoom
             /\ cache' = DeleteSync(cache, ReviewCacheKey(c.id))
             /\ store' = CommentApplied(store, c.id,
                           [r EXCEPT !.comments = AppendComment(@, c.ret.data.v)])
             /\ calls' = [calls EXCEPT ![cid] = Return(c, RetNull)]
        ELSE /\ calls' = [calls EXCEPT ![cid] =
                            Return(c, IF c.ret.ok THEN RetNull ELSE c.ret)]
             /\ UNCHANGED <<cache, store>>
     /\ UNCHANGED <<net, storeRest>>
     /\ Subscription

\* after `await reviewService.updateComment(...)`; the catch block rethrows
StoreUpdateCommentUpdated(cid) ==
  LET c == calls[cid]
      r == FindReview(store.reviews, c.id)
  IN /\ At(cid, "storeUpdateComment.updated")
     /\ IF c.ret.ok /\ HasReview(store.reviews, c.id)
        THEN /\ QueueRoom
             /\ cache' = DeleteSync(cache, ReviewCacheKey(c.id))
             /\ store' = CommentApplied(store, c.id,
                           [r EXCEPT !.comments = updateComments(@, c.ret.data.v)])
             /\ calls' = [calls EXCEPT ![cid] = Return(c, RetNull)]
        ELSE /\ calls' = [calls EXCEPT ![cid] =
                            Return(c, IF c.ret.ok THEN RetNull ELSE c.ret)]
             /\ UNCHANGED <<cache, store>>
     /\ UNCHANGED <<net, storeRest>>
     /\ Subscription

(***************************************************************************)
(* The ReviewProvider holding its own state (useStore not set) and the     *)
(* reconciliation loop useReviewSync.                                      *)
(***************************************************************************)
MaxSyncTicks == 2   \* callbacks of the useReviewSync interval

providerRest == <<now, last, setExpiry, keyVars, errorHandler, server, store>>

\* The provider's fetchReviews(options) without useStore, up to
\* `await cacheManager.getAsync(cacheKey)`
EnterProviderFetchReviews(cid, c, options) ==
  LET eff == IF options.has THEN options.obj ELSE provider.filters
  IN /\ provider' = [provider EXCEPT !.loading = TRUE, !.error = NoError]
     /\ EnterCachedRead(cid, [c EXCEPT !.opts = eff], "providerFetchReviews.cached",
                        ListCacheKey(eff.props))

providerLocalFetchReviews(cid, options) ==
  /\ Free(cid)
  /\ ~provider.useStore
  /\ EnterProviderFetchReviews(cid, [IdleCall EXCEPT !.op = "provider.fetchReviews"], options)
  /\ UNCHANGED <<net, providerRest>>

\* after the getAsync: a hit is shown, else `await reviewService.getReviews(...)`
ProviderFetchReviewsCached(cid) ==
  LET c == calls[cid]
  IN /\ At(cid, "providerFetchReviews.cached")
     /\ IF c.ret.has
        THEN /\ provider' = [provider EXCEPT !.localReviews = c.ret.data.v,
                                             !.loading = FALSE]
             /\ calls' = [calls EXCEPT ![cid] = Return(c, RetNull)]
             /\ UNCHANGED cache
        ELSE /\ EnterGetReviews(cid, Push(c, "providerFetchReviews.local"), c.opts.props)
             /\ UNCHANGED provider
     /\ UNCHANGED <<net, providerRest>>

\* after getReviews: the catch and finally blocks, or
\* `await cacheManager.set(cacheKey, fetchedReviews, ...)`
ProviderFetchReviewsLocal(cid) ==
  LET c == calls[cid]
  IN /\ At(cid, "providerFetchReviews.local")
     /\ IF ~c.ret.ok
        THEN /\ provider' = [provider EXCEPT !.error = StoreError("FETCH_REVIEWS_ERROR"),
                                             !.loading = FALSE]
             /\ calls' = [calls EXCEPT ![cid] = Return(c, RetNull)]
             /\ UNCHANGED cache
        ELSE /\ AwaitSet(cid, c, "providerFetchReviews.stored",
                         ListCacheKey(c.opts.props), c.ret.data, listTTL)
             /\ UNCHANGED provider
     /\ UNCHANGED <<net, providerRest>>

ProviderFetchReviewsStored(cid) ==
  LET c == calls[cid]
  IN /\ At(cid, "providerFetchReviews.stored")
     /\ provider' = [provider EXCEPT !.localReviews = c.tmp.v, !.loading = FALSE]
     /\ calls' = [calls EXCEPT ![cid] = Return(c, RetNull)]
     /\ UNCHANGED <<cache, net, providerRest>>

\* (a context that exposes the provider's own list in either mode)
ContextReviewsLocal == provider.localReviews

\* context.reviews: `useStore ? store.reviews : localReviews`
ContextReviews == IF provider.useStore THEN store.reviews ELSE provider.localReviews

\* The callback of the useReviewSync interval: context.fetchReviews() when
\* the two lengths differ (the promise is dropped).
SyncTick(cid) ==
  /\ provider.ticks < MaxSyncTicks
  /\ Free(cid)
  /\ IF Len(store.reviews) # Len(ContextReviews)
     THEN IF provider.useStore
          THEN /\ EnterFetchReviews(cid,
                     Push([IdleCall EXCEPT !.op = "useReviewSync.fetchReviews"],
                          "providerFetchReviews.fetched"),
                     Options(provider.filters), FALSE)
               /\ provider' = [Notify(provider, store') EXCEPT !.ticks = @ + 1]
          ELSE /\ EnterCachedRead(cid,
                     [IdleCall EXCEPT !.op = "useReviewSync.fetchReviews",
                                      !.opts = provider.filters],
                     "providerFetchReviews.cached", ListCacheKey(provider.filters.props))
               /\ provider' = [provider EXCEPT !.ticks = @ + 1, !.loading = TRUE,
                                               !.error = NoError]
               /\ UNCHANGED store
     ELSE /\ provider' = [provider EXCEPT !.ticks = @ + 1]
          /\ UNCHANGED <<cache, calls, store>>
  /\ UNCHANGED <<net, storeRest>>

(***************************************************************************)
(* Reload of the page.  The persist middleware wrote {reviews, filters,    *)
(* cacheVersion} to localStorage as JSON at every state change and merges  *)
(* it into the initial state; the modules are evaluated again; IndexedDB   *)
(* keeps what was committed.                                               *)
(***************************************************************************)
\* JSON.parse(JSON.stringify(review)): the Date objects come back as strings
Rehydrate(r) == [r EXCEPT !.dates = "string"]

Rehydrated(s) ==
  [InitStore EXCEPT !.reviews = [i \in 1..Len(s.reviews) |-> Rehydrate(s.reviews[i])],
                    !.filters = FilterObject("rehydrated", s.filters.props),
                    !.cacheVersion = s.cacheVersion,
                    !.restored = TRUE]

StoreReload ==
  /\ cache.queue = <<>>
  /\ \A c \in CallIds : Free(c)
  /\ cache.db # "opening"
  /\ ~store.restored
  /\ cache' = [InitCacheManager EXCEPT !.idb = cache.idb]
  /\ store' = Rehydrated(store)
  /\ provider' = [InitProvider EXCEPT !.useStore = provider.useStore,
                                      !.slice = store'.reviews]
  /\ net' = InitNet
  /\ errorHandler' = InitErrorHandler
  /\ UNCHANGED <<now, calls, last, setExpiry, keyVars, server>>

(***************************************************************************)
(* Deleting a review.                                                      *)
(***************************************************************************)
\* state.reviews.filter(r => r.id !== id)
WithoutReview(rs, id) == SelectSeq(rs, LAMBDA r : r.id # id)

\* store.removeReview(id): synchronous; the call record (already settled)
\* shows the caller that it ran.
removeReviewState(s, id) ==
  [s EXCEPT !.reviews = WithoutReview(s.reviews, id),
            !.selectedReview = IF s.selectedReview.has /\ s.selectedReview.v.id = id
                               THEN NoSelected ELSE @]

removeReviewCache(c, s, id, t) ==
  SetSync(DeleteSync(c, ReviewCacheKey(id)), "reviews",
          ListData(WithoutReview(s.reviews, id)), listTTL, t, 0)

removeReview(cid, id) ==
  /\ Free(cid)
  /\ QueueRoom
  /\ cache' = removeReviewCache(cache, store, id, now)
  /\ store' = removeReviewState(store, id)
  /\ calls' = [calls EXCEPT ![cid] =
                 [IdleCall EXCEPT !.op = "store.removeReview", !.pc = "done", !.id = id]]
  /\ UNCHANGED <<net, storeRest>>
  /\ Subscription

\* The provider's deleteReview(id), up to `await reviewService.deleteReview(id)`;
\* tmp keeps the currentReview of the render the callback was made in.
providerDeleteReview(cid, id) ==
  /\ Free(cid)
  /\ provider' = [provider EXCEPT !.loading = TRUE, !.error = NoError]
  /\ EnterDeleteReview(cid, Push([IdleCall EXCEPT !.op = "provider.deleteReview",
                                                  !.tmp = ReviewData(provider.currentReview.v),
                                                  !.force = provider.currentReview.has],
                                 "providerDeleteReview.deleted"), id)
  /\ UNCHANGED <<cache, now, last, setExpiry, keyVars, errorHandler, server, store>>

\* `if (currentReview?.id === id) setCurrentReview(null)` and the finally block
DeleteReviewFinish(p, c) ==
  [p EXCEPT !.currentReview = IF c.force /\ c.tmp.v.id = c.id THEN NoSelected ELSE @,
            !.loading = FALSE]

\* after the service call: the catch block, or store.removeReview(id), or
\* the provider's own list and `await cacheManager.delete(`review:${id}`)`
ProviderDeleteReviewDeleted(cid) ==
  LET c == calls[cid]
  IN /\ At(cid, "providerDeleteReview.deleted")
     /\ IF ~c.ret.ok
        THEN /\ provider' = [provider EXCEPT !.error = StoreError("DELETE_REVIEW_ERROR"),
                                             !.loading = FALSE]
             /\ calls' = [calls EXCEPT ![cid] = Return(c, RetNull)]
             /\ UNCHANGED <<cache, store>>
        ELSE IF provider.useStore
        THEN /\ QueueRoom
             /\ cache' = removeReviewCache(cache, store, c.id, now)
             /\ store' = removeReviewState(store, c.id)
             /\ provider' = DeleteReviewFinish(Notify(provider, store'), c)
             /\ calls' = [calls EXCEPT ![cid] = Return(c, RetNull)]
        ELSE /\ provider' = [provider EXCEPT
                               !.localReviews = WithoutReview(@, c.id)]
             /\ AwaitDelete(cid, c, "providerDeleteReview.local1", ReviewCacheKey(c.id))
             /\ UNCHANGED store
     /\ UNCHANGED <<net, now, last, setExpiry, keyVars, errorHandler, server>>

\* `await cacheManager.delete('reviews:{}')`
ProviderDeleteReviewLocal1(cid) ==
  /\ At(cid, "providerDeleteReview.local1")
  /\ AwaitDelete(cid, calls[cid], "providerDeleteReview.local2", EmptyFiltersKey)
  /\ UNCHANGED <<net, now, last, setExpiry, keyVars, errorHandler, server, uiVars>>

ProviderDeleteReviewLocal2(cid) ==
  /\ At(cid, "providerDeleteReview.local2")
  /\ provider' = DeleteReviewFinish(provider, calls[cid])
  /\ calls' = [calls EXCEPT ![cid] = Return(calls[cid], RetNull)]
  /\ UNCHANGED <<cache, net, now, last, setExpiry, keyVars, errorHandler, server, store>>

(***************************************************************************)
(* The operations of the ReviewProvider with useStore set.  `store` in a   *)
(* callback is the state object useReviewStore() returned to the render    *)
(* the callback was made in; set(...) replaces the state object, so what   *)
(* the callback reads through it is the state of that render.              *)
(***************************************************************************)
\* fetchReview(id): `await store.fetchReview(id, false)`
providerFetchReview(cid, id) ==
  /\ Free(cid)
  /\ provider.useStore
  /\ EnterFetchReview(cid, Push([IdleCall EXCEPT !.op = "provider.fetchReview",
                                                 !.closure = store.selectedReview],
                                "providerFetchReview.fetched"), id, FALSE)
  /\ UNCHANGED <<net, storeRest>>
  /\ Subscription

\* `setCurrentReview(store.selectedReview)`
ProviderFetchReviewFetched(cid) ==
  /\ At(cid, "providerFetchReview.fetched")
  /\ provider' = [provider EXCEPT !.currentReview = calls[cid].closure]
  /\ calls' = [calls EXCEPT ![cid] = Return(calls[cid], RetNull)]
  /\ UNCHANGED <<cache, net, store, storeRest>>

\* updateReview(id, updates): `await store.updateReview(id, updates)`
providerUpdateReview(cid, id) ==
  /\ Free(cid)
  /\ provider.useStore
  /\ id \in DOMAIN server.revs => server.revs[id] < MaxVer
  /\ provider' = [provider EXCEPT !.loading = TRUE, !.error = NoError]
  /\ EnterStoreUpdateReview(cid, Push([IdleCall EXCEPT !.op = "provider.updateReview"],
                                      "providerOp.settled"), id)
  /\ UNCHANGED <<cache, store, storeRest>>

\* addComment(reviewId, comment): `await store.addComment(reviewId, comment)`
providerAddComment(cid, id) ==
  /\ Free(cid)
  /\ provider.useStore
  /\ CommentRoom(id)
  /\ provider' = [provider EXCEPT !.loading = TRUE, !.error = NoError]
  /\ EnterStoreAddComment(cid, Push([IdleCall EXCEPT !.op = "provider.addComment"],
                                    "providerOp.settled"), id)
  /\ UNCHANGED <<cache, store, storeRest>>

\* updateComment(reviewId, commentId, updates)
providerUpdateComment(cid, id, cm) ==
  /\ Free(cid)
  /\ provider.useStore
  /\ provider' = [provider EXCEPT !.loading = TRUE, !.error = NoError]
  /\ EnterStoreUpdateComment(cid, Push([IdleCall EXCEPT !.op = "provider.updateComment"],
                                       "providerOp.settled"), id, cm)
  /\ UNCHANGED <<cache, store, storeRest>>

\* the code the catch block of each of the three gives its error
ProviderErrorCode(op) ==
  CASE op = "provider.updateReview" -> "UPDATE_REVIEW_ERROR"
    [] op = "provider.addComment" -> "ADD_COMMENT_ERROR"
    [] op = "provider.updateComment" -> "UPDATE_COMMENT_ERROR"

\* after the store action: the catch block when it threw, and the finally
ProviderOpSettled(cid) ==
  LET c == calls[cid]
  IN /\ At(cid, "providerOp.settled")
     /\ provider' = [provider EXCEPT
                       !.error = IF c.ret.ok THEN @
                                 ELSE StoreError(ProviderErrorCode(c.op)),
                       !.loading = FALSE]
     /\ calls' = [calls EXCEPT ![cid] = Return(c, RetNull)]
     /\ UNCHANGED <<cache, net, store, storeRest>>

(***************************************************************************)
(* updateComment over a tree of comments.  An object is known by its ref,  *)
(* which is what === compares: [obj, gen] is the gen-th copy of the object *)
(* obj the review was loaded with.  A comment is [ref, id, replies], a     *)
(* review [ref, files, comments] with files the ref of its files array.    *)
(***************************************************************************)
MaxComments == 4   \* comments of the review

Ref(n) == [obj |-> n, gen |-> 0]

\* `{ ...x, ... }`: another object
Copy(ref) == [ref EXCEPT !.gen = @ + 1]

CommentName(i) == <<"c1", "c2", "c3", "c4", "c5", "c6", "c7">>[i]

\* The shapes of a tree of n comments: for each comment the one it replies
\* to (0: the review itself).
TreeShapes(n) == {p \in [1..n -> 0..(n - 1)] : \A i \in 1..n : p[i] < i}

RECURSIVE CommentNode(_, _, _)
\* the comments of shape p that reply to i, in their order
RepliesTo(p, n, i) ==
  LET js == SelectSeq([j \in 1..n |-> j], LAMBDA j : p[j] = i)
  IN [k \in 1..Len(js) |-> CommentNode(p, n, js[k])]

CommentNode(p, n, i) ==
  [ref |-> Ref(i), id |-> CommentName(i), replies |-> RepliesTo(p, n, i)]

ReviewOf(p, n) == [ref |-> Ref(0), files |-> Ref(n + 1), comments |-> RepliesTo(p, n, 0)]

\* what reviewService.updateComment resolved with: an object of its own
UpdatedCommentObject(id) == [ref |-> Ref(MaxComments + 2), id |-> id, replies |-> <<>>]

RECURSIVE updateCommentTree(_, _, _)
\* updateComments(comments) of updateComment
updateCommentTree(comments, commentId, updatedComment) ==
  [k \in 1..Len(comments) |->
     LET c == comments[k]
     IN IF c.id = commentId THEN updatedComment
        ELSE IF Len(c.replies) > 0
        THEN [c EXCEPT !.ref = Copy(@),
                       !.replies = updateCommentTree(@, commentId, updatedComment)]
        ELSE c]

\* newReview of updateComment: `{...updatedReview, comments: updateComments(...)}`
UpdatedReview(review, commentId, updatedComment) ==
  [review EXCEPT !.ref = Copy(@),
                 !.comments = updateCommentTree(@, commentId, updatedComment)]

NoCommentIn == [n |-> 0, shape |-> <<>>, target |-> 0, review |-> ReviewOf(<<>>, 0)]
NoCommentOut == [done |-> FALSE, review |-> ReviewOf(<<>>, 0)]

CommentInputs ==
  {[n |-> n, shape |-> p, target |-> t, review |-> ReviewOf(p, n)] :
     n \in {MaxComments}, p \in TreeShapes(MaxComments), t \in 1..MaxComments}

\* updateComment(reviewId, commentId, updates) on the review taken up
UpdateCommentTree ==
  /\ commentIn.n > 0
  /\ ~commentOut.done
  /\ commentOut' = [done |-> TRUE,
                    review |-> UpdatedReview(commentIn.review,
                                             CommentName(commentIn.target),
                                             UpdatedCommentObject(CommentName(commentIn.target)))]
  /\ UNCHANGED <<commentIn, keyIn, keyOut, cacheVars, httpVars, uiVars>>

\* The next review and comment are taken up.
NextComment ==
  /\ commentOut.done
  /\ commentIn' \in CommentInputs
  /\ commentOut' = NoCommentOut
  /\ UNCHANGED <<keyIn, keyOut, cacheVars, httpVars, uiVars>>
(***************************************************************************)
(* Specifications.                                                         *)
(***************************************************************************)
InitCache ==
  /\ now = 0
  /\ cache = InitCacheManager
  /\ calls = [c \in CallIds |-> IdleCall]
  /\ last = NoLast
  /\ setExpiry = [x \in {} |-> 0]

InitTreeIdle ==
  /\ commentIn = NoCommentIn
  /\ commentOut = NoCommentOut

InitKeysIdle ==
  /\ keyIn = <<<<>>, <<>>>>
  /\ keyOut = NoKeys
  /\ InitTreeIdle

InitHttp ==
  /\ net = InitNet
  /\ errorHandler = InitErrorHandler
  /\ server \in {[revs |-> [x \in {"r1"} |-> 1], comments |-> c] : c \in ServerComments}

InitUi ==
  /\ store = InitStore
  /\ provider = InitProvider

\* The cache under its direct callers.
NextCache ==
  \/ \E k \in CacheKeys, v \in CacheValues, ttl \in CacheTtls : CacheSet(k, v, ttl)
  \/ \E k \in CacheKeys : CacheGet(k)
  \/ \E cid \in CacheCallers, k \in CacheKeys : CacheGetAsync(cid, k)
  \/ \E k \in CacheKeys : CacheDelete(k)
  \/ CacheClear
  \/ \E cid \in CacheCallers : CacheSettle(cid)
  \/ CleanupTick
  \/ IdbStep
  \/ IdbOpened
  \/ IdbOpenFailed
  \/ Reload
  \/ Tick(1)

InitCacheOnly ==
  InitCache /\ InitKeysIdle /\ InitHttp /\ server.comments = "absent" /\ InitUi

SpecCache == InitCacheOnly /\ [][NextCache]_vars

\* The key builders over every pair of filter objects.
InitKeys ==
  /\ InitCache /\ InitHttp /\ server.comments = "absent" /\ InitUi
  /\ keyIn \in FilterObjects \X FilterObjects
  /\ keyOut = NoKeys
  /\ InitTreeIdle

NextKeys == BuildKeys \/ NextObjects

SpecKeys == InitKeys /\ [][NextKeys]_vars

\* ReviewService under its direct callers: every answer is a 2xx.
NextService ==
  \/ \E cid \in Readers, f \in ServiceFilters : getReviews(cid, f)
  \/ \E cid \in CallIds : GetReviewsCached(cid)
  \/ \E cid \in CallIds : GetReviewsResponse(cid)
  \/ \E cid \in CallIds : GetReviewsStored(cid)
  \/ \E cid \in Readers, id \in ServiceIds : getReview(cid, id)
  \/ \E cid \in CallIds : GetReviewCached(cid)
  \/ \E cid \in CallIds : GetReviewResponse(cid)
  \/ \E cid \in CallIds : GetReviewStored(cid)
  \/ \E cid \in Writers : createReview(cid)
  \/ \E cid \in CallIds : CreateReviewResponse(cid)
  \/ \E cid \in CallIds : CreateReviewDeleted(cid)
  \/ \E cid \in Writers, id \in ServiceIds : updateReview(cid, id)
  \/ \E cid \in CallIds : UpdateReviewResponse(cid)
  \/ \E cid \in CallIds : UpdateReviewDeleted1(cid)
  \/ \E cid \in CallIds : UpdateReviewDeleted2(cid)
  \/ \E cid \in CallIds : Collect(cid)
  \/ \E o \in CallIds, a \in ServiceAnswers : NetRespond(o, a)
  \/ IdbStep
  \/ IdbOpened
  \/ IdbOpenFailed

InitService == InitCache /\ InitKeysIdle /\ InitHttp /\ InitUi

SpecService == InitService /\ [][NextService]_vars

\* The retry policy: single reviews are read from an API that may fail.
NextRetry ==
  \/ \E cid \in Readers, id \in ReviewIds : getReview(cid, id)
  \/ \E cid \in CallIds : GetReviewCached(cid)
  \/ \E cid \in CallIds : GetReviewResponse(cid)
  \/ \E cid \in CallIds : GetReviewStored(cid)
  \/ \E cid \in CallIds : Collect(cid)
  \/ \E o \in CallIds, a \in RetryAnswers : NetRespond(o, a)
  \/ \E o \in CallIds : RetryFire(o)
  \/ IdbStep
  \/ IdbOpened
  \/ IdbOpenFailed
  \/ Tick(retryDelay)

SpecRetry == InitService /\ [][NextRetry]_vars

\* The store and the provider delegating to it, one call at a time, over an
\* API that answers every request with a 2xx.
NextStore ==
  \/ \E cid \in ListCallers, o \in StoreOptions, force \in StoreForce : fetchReviews(cid, o, force)
  \/ \E cid \in ListCallers : FetchReviewsCached(cid)
  \/ \E cid \in ListCallers : FetchReviewsFetched(cid)
  \/ \E cid \in ListCallers : FetchReviewsStored(cid)
  \/ \E cid \in ListCallers, id \in StoreIds, force \in StoreForce : fetchReview(cid, id, force)
  \/ \E cid \in ListCallers : FetchReviewCached(cid)
  \/ \E cid \in ListCallers : FetchReviewFetched(cid)
  \/ \E cid \in ListCallers : FetchReviewStored(cid)
  \/ \E cid \in ListCallers, id \in ServiceIds : storeUpdateReview(cid, id)
  \/ \E cid \in ListCallers : StoreUpdateReviewUpdated(cid)
  \/ \E cid \in ListCallers, o \in StoreOptions : providerFetchReviews(cid, o)
  \/ \E cid \in ListCallers : ProviderFetchReviewsFetched(cid)
  \/ \E o \in PanelObjects : providerSetFilters(o)
  \/ \E cid \in ListCallers : GetReviewsCached(cid)
  \/ \E cid \in ListCallers : GetReviewsResponse(cid)
  \/ \E cid \in ListCallers : GetReviewsStored(cid)
  \/ \E cid \in ListCallers : GetReviewCached(cid)
  \/ \E cid \in ListCallers : GetReviewResponse(cid)
  \/ \E cid \in ListCallers : GetReviewStored(cid)
  \/ \E cid \in ListCallers : UpdateReviewResponse(cid)
  \/ \E cid \in ListCallers : UpdateReviewDeleted1(cid)
  \/ \E cid \in ListCallers : UpdateReviewDeleted2(cid)
  \/ \E cid \in ListCallers : Collect(cid)
  \/ \E o \in ListCallers, a \in StoreAnswers : NetRespond(o, a)
  \/ IdbStep
  \/ IdbOpened
  \/ IdbOpenFailed

InitStoreSpec ==
  /\ InitCache /\ InitKeysIdle /\ InitUi
  /\ net = InitNet
  /\ errorHandler = InitErrorHandler
  /\ server = [revs |-> [x \in ReviewIds |-> 1], comments |-> "absent"]

SpecStore == InitStoreSpec /\ [][NextStore]_vars

\* Single reviews fetched through the store by overlapping calls.
NextDetail ==
  \/ \E cid \in CallIds, id \in StoreIds, force \in StoreForce : fetchReview(cid, id, force)
  \/ \E cid \in CallIds : FetchReviewCached(cid)
  \/ \E cid \in CallIds : FetchReviewFetched(cid)
  \/ \E cid \in CallIds : FetchReviewStored(cid)
  \/ \E cid \in CallIds : GetReviewCached(cid)
  \/ \E cid \in CallIds : GetReviewResponse(cid)
  \/ \E cid \in CallIds : GetReviewStored(cid)
  \/ \E cid \in CallIds : Collect(cid)
  \/ \E o \in CallIds, a \in StoreAnswers : NetRespond(o, a)
  \/ IdbStep
  \/ IdbOpened
  \/ IdbOpenFailed

SpecDetail == InitStoreSpec /\ [][NextDetail]_vars


\* The memory budget: sets of small and large values under several keys,
\* while init() has not settled (the memory layer alone).
BudgetKeys == {"k1", "k2", "k3", "k4", "k5"}
BudgetSets ==
  {<<k, Blob("v1")>> : k \in BudgetKeys} \cup {<<"k1", Blob("big")>>, <<"k5", Blob("big")>>}
BudgetTtls == {defaultTTL}

\* The bytes the entries of the memory layer take.
RECURSIVE MemBytes(_)
MemBytes(mem) ==
  IF mem = <<>> THEN 0 ELSE estimateSize(Head(mem).entry) + MemBytes(Tail(mem))

\* The callers stop setting once the accounted size has drifted from the
\* bytes held (the drift is not bounded otherwise).
BudgetSet(k, v, ttl) ==
  /\ cache.currentMemorySize = MemBytes(cache.memoryCache)
  /\ CacheSet(k, v, ttl)

NextBudget ==
  \/ \E s \in BudgetSets, ttl \in BudgetTtls : BudgetSet(s[1], s[2], ttl)
  \/ \E k \in BudgetKeys : CacheDelete(k)

SpecBudget == InitCacheOnly /\ [][NextBudget]_vars

\* The store over an API that may refuse a request.
FailAnswers == {Ok, Status(404)}
FailOptions == {NoOptions}

NextFail ==
  \/ \E cid \in ListCallers, o \in FailOptions, force \in StoreForce : fetchReviews(cid, o, force)
  \/ \E cid \in ListCallers : FetchReviewsCached(cid)
  \/ \E cid \in ListCallers : FetchReviewsFetched(cid)
  \/ \E cid \in ListCallers : FetchReviewsStored(cid)
  \/ \E cid \in ListCallers, id \in ServiceIds, force \in StoreForce : fetchReview(cid, id, force)
  \/ \E cid \in ListCallers : FetchReviewCached(cid)
  \/ \E cid \in ListCallers : FetchReviewFetched(cid)
  \/ \E cid \in ListCallers : FetchReviewStored(cid)
  \/ \E cid \in ListCallers, id \in ServiceIds : storeUpdateReview(cid, id)
  \/ \E cid \in ListCallers : StoreUpdateReviewUpdated(cid)
  \/ \E cid \in ListCallers, id \in ServiceIds : storeAddComment(cid, id)
  \/ \E cid \in ListCallers : StoreAddCommentAdded(cid)
  \/ \E cid \in ListCallers, id \in ServiceIds, cm \in CommentIds : storeUpdateComment(cid, id, cm)
  \/ \E cid \in ListCallers : StoreUpdateCommentUpdated(cid)
  \/ \E cid \in ListCallers : GetReviewsCached(cid)
  \/ \E cid \in ListCallers : GetReviewsResponse(cid)
  \/ \E cid \in ListCallers : GetReviewsStored(cid)
  \/ \E cid \in ListCallers : GetReviewCached(cid)
  \/ \E cid \in ListCallers : GetReviewResponse(cid)
  \/ \E cid \in ListCallers : GetReviewStored(cid)
  \/ \E cid \in ListCallers : UpdateReviewResponse(cid)
  \/ \E cid \in ListCallers : UpdateReviewDeleted1(cid)
  \/ \E cid \in ListCallers : UpdateReviewDeleted2(cid)
  \/ \E cid \in ListCallers : CommentResponse(cid)
  \/ \E cid \in ListCallers : CommentDeleted(cid)
  \/ \E cid \in ListCallers : Collect(cid)
  \/ \E o \in ListCallers, a \in FailAnswers : NetRespond(o, a)
  \/ IdbStep
  \/ IdbOpened
  \/ IdbOpenFailed

SpecFail == InitStoreSpec /\ [][NextFail]_vars

\* The store and a provider that holds its own state, with the
\* reconciliation loop between them.
InitSync ==
  /\ InitCache /\ InitKeysIdle
  /\ store = InitStore
  /\ provider = [InitProvider EXCEPT !.useStore = FALSE]
  /\ net = InitNet
  /\ errorHandler = InitErrorHandler
  /\ server = [revs |-> [x \in ReviewIds |-> 1], comments |-> "absent"]

NextSync ==
  \/ \E cid \in ListCallers, o \in FailOptions, force \in StoreForce : fetchReviews(cid, o, force)
  \/ \E cid \in ListCallers : FetchReviewsCached(cid)
  \/ \E cid \in ListCallers : FetchReviewsFetched(cid)
  \/ \E cid \in ListCallers : FetchReviewsStored(cid)
  \/ \E cid \in ListCallers, id \in ServiceIds : storeUpdateReview(cid, id)
  \/ \E cid \in ListCallers : StoreUpdateReviewUpdated(cid)
  \/ \E cid \in ListCallers, o \in FailOptions : providerLocalFetchReviews(cid, o)
  \/ \E cid \in ListCallers : ProviderFetchReviewsCached(cid)
  \/ \E cid \in ListCallers : ProviderFetchReviewsLocal(cid)
  \/ \E cid \in ListCallers : ProviderFetchReviewsStored(cid)
  \/ \E cid \in ListCallers : SyncTick(cid)
  \/ \E cid \in ListCallers : GetReviewsCached(cid)
  \/ \E cid \in ListCallers : GetReviewsResponse(cid)
  \/ \E cid \in ListCallers : GetReviewsStored(cid)
  \/ \E cid \in ListCallers : UpdateReviewResponse(cid)
  \/ \E cid \in ListCallers : UpdateReviewDeleted1(cid)
  \/ \E cid \in ListCallers : UpdateReviewDeleted2(cid)
  \/ \E cid \in ListCallers : Collect(cid)
  \/ \E o \in ListCallers, a \in StoreAnswers : NetRespond(o, a)
  \/ IdbStep
  \/ IdbOpened
  \/ IdbOpenFailed

SpecSync == InitSync /\ [][NextSync]_vars

\* The store across reloads of the page.
NextReload ==
  \/ \E cid \in ListCallers, o \in FailOptions, force \in StoreForce : fetchReviews(cid, o, force)
  \/ \E cid \in ListCallers : FetchReviewsCached(cid)
  \/ \E cid \in ListCallers : FetchReviewsFetched(cid)
  \/ \E cid \in ListCallers : FetchReviewsStored(cid)
  \/ \E cid \in Writers, id \in ServiceIds : updateReview(cid, id)
  \/ \E cid \in CallIds : GetReviewsCached(cid)
  \/ \E cid \in CallIds : GetReviewsResponse(cid)
  \/ \E cid \in CallIds : GetReviewsStored(cid)
  \/ \E cid \in CallIds : UpdateReviewResponse(cid)
  \/ \E cid \in CallIds : UpdateReviewDeleted1(cid)
  \/ \E cid \in CallIds : UpdateReviewDeleted2(cid)
  \/ \E cid \in CallIds : Collect(cid)
  \/ \E o \in CallIds, a \in StoreAnswers : NetRespond(o, a)
  \/ StoreReload
  \/ IdbStep
  \/ IdbOpened
  \/ IdbOpenFailed

SpecReload == InitStoreSpec /\ [][NextReload]_vars

\* Reviews read through the service and the store, and deleted through the
\* service, the store or the provider (mounted in either mode).
InitDelete ==
  /\ InitCache /\ InitKeysIdle
  /\ store = InitStore
  /\ provider \in {InitProvider, [InitProvider EXCEPT !.useStore = FALSE]}
  /\ net = InitNet
  /\ errorHandler = InitErrorHandler
  /\ server = [revs |-> [x \in ReviewIds |-> 1], comments |-> "absent"]

NextDelete ==
  \/ \E cid \in ListCallers, f \in ServiceFilters : getReviews(cid, f)
  \/ \E cid \in ListCallers : GetReviewsCached(cid)
  \/ \E cid \in ListCallers : GetReviewsResponse(cid)
  \/ \E cid \in ListCallers : GetReviewsStored(cid)
  \/ \E cid \in ListCallers, id \in ServiceIds : getReview(cid, id)
  \/ \E cid \in ListCallers : GetReviewCached(cid)
  \/ \E cid \in ListCallers : GetReviewResponse(cid)
  \/ \E cid \in ListCallers : GetReviewStored(cid)
  \/ \E cid \in ListCallers, o \in FailOptions, force \in StoreForce : fetchReviews(cid, o, force)
  \/ \E cid \in ListCallers : FetchReviewsCached(cid)
  \/ \E cid \in ListCallers : FetchReviewsFetched(cid)
  \/ \E cid \in ListCallers : FetchReviewsStored(cid)
  \/ \E cid \in ListCallers, id \in ServiceIds : deleteReview(cid, id)
  \/ \E cid \in ListCallers : DeleteReviewResponse(cid)
  \/ \E cid \in ListCallers : DeleteReviewDeleted1(cid)
  \/ \E cid \in ListCallers : DeleteReviewDeleted2(cid)
  \/ \E cid \in ListCallers, id \in ServiceIds : removeReview(cid, id)
  \/ \E cid \in ListCallers, id \in ServiceIds : providerDeleteReview(cid, id)
  \/ \E cid \in ListCallers : ProviderDeleteReviewDeleted(cid)
  \/ \E cid \in ListCallers : ProviderDeleteReviewLocal1(cid)
  \/ \E cid \in ListCallers : ProviderDeleteReviewLocal2(cid)
  \/ \E cid \in ListCallers : Collect(cid)
  \/ \E o \in ListCallers, a \in FailAnswers : NetRespond(o, a)
  \/ IdbStep
  \/ IdbOpened
  \/ IdbOpenFailed

SpecDelete == InitDelete /\ [][NextDelete]_vars

\* The provider with useStore set under the views that call it.
MirrorIds == {"r1"}
MirrorAnswers == {Ok}

NextMirror ==
  \/ \E cid \in ListCallers, o \in FailOptions : providerFetchReviews(cid, o)
  \/ \E cid \in ListCallers : ProviderFetchReviewsFetched(cid)
  \/ \E cid \in ListCallers : FetchReviewsCached(cid)
  \/ \E cid \in ListCallers : FetchReviewsFetched(cid)
  \/ \E cid \in ListCallers : FetchReviewsStored(cid)
  \/ \E cid \in ListCallers, id \in MirrorIds : providerFetchReview(cid, id)
  \/ \E cid \in ListCallers : ProviderFetchReviewFetched(cid)
  \/ \E cid \in ListCallers : FetchReviewCached(cid)
  \/ \E cid \in ListCallers : FetchReviewFetched(cid)
  \/ \E cid \in ListCallers : FetchReviewStored(cid)
  \/ \E cid \in ListCallers, id \in MirrorIds : providerUpdateReview(cid, id)
  \/ \E cid \in ListCallers : StoreUpdateReviewUpdated(cid)
  \/ \E cid \in ListCallers, id \in MirrorIds : providerAddComment(cid, id)
  \/ \E cid \in ListCallers : StoreAddCommentAdded(cid)
  \/ \E cid \in ListCallers, id \in MirrorIds, cm \in CommentIds : providerUpdateComment(cid, id, cm)
  \/ \E cid \in ListCallers : StoreUpdateCommentUpdated(cid)
  \/ \E cid \in ListCallers : ProviderOpSettled(cid)
  \/ \E cid \in ListCallers, id \in MirrorIds : providerDeleteReview(cid, id)
  \/ \E cid \in ListCallers : ProviderDeleteReviewDeleted(cid)
  \/ \E cid \in ListCallers : DeleteReviewResponse(cid)
  \/ \E cid \in ListCallers : DeleteReviewDeleted1(cid)
  \/ \E cid \in ListCallers : DeleteReviewDeleted2(cid)
  \/ \E cid \in ListCallers : GetReviewsCached(cid)
  \/ \E cid \in ListCallers : GetReviewsResponse(cid)
  \/ \E cid \in ListCallers : GetReviewsStored(cid)
  \/ \E cid \in ListCallers : GetReviewCached(cid)
  \/ \E cid \in ListCallers : GetReviewResponse(cid)
  \/ \E cid \in ListCallers : GetReviewStored(cid)
  \/ \E cid \in ListCallers : UpdateReviewResponse(cid)
  \/ \E cid \in ListCallers : UpdateReviewDeleted1(cid)
  \/ \E cid \in ListCallers : UpdateReviewDeleted2(cid)
  \/ \E cid \in ListCallers : CommentResponse(cid)
  \/ \E cid \in ListCallers : CommentDeleted(cid)
  \/ \E cid \in ListCallers : Collect(cid)
  \/ \E o \in ListCallers, a \in MirrorAnswers : NetRespond(o, a)
  \/ IdbStep
  \/ IdbOpened
  \/ IdbOpenFailed

SpecMirror == InitStoreSpec /\ [][NextMirror]_vars

\* updateComment over every tree of MaxComments comments.
InitComments ==
  /\ InitCache /\ InitHttp /\ server.comments = "absent" /\ InitUi
  /\ keyIn = <<<<>>, <<>>>>
  /\ keyOut = NoKeys
  /\ commentIn \in CommentInputs
  /\ commentOut = NoCommentOut

NextComments == UpdateCommentTree \/ NextComment

SpecComments == InitComments /\ [][NextComments]_vars

(***************************************************************************)
(* The periodic sweep.  The interval is armed by init() once openDB has    *)
(* resolved and then fires for ever; IndexedDB runs every request it is    *)
(* given; openDB settles.                                                  *)
(***************************************************************************)
NextSweep ==
  \/ \E k \in CacheKeys, v \in CacheValues, ttl \in CacheTtls : CacheSet(k, v, ttl)
  \/ CleanupTick
  \/ IdbStep
  \/ IdbOpened
  \/ IdbOpenFailed
  \/ Tick(1)

SweepFairness ==
  /\ SF_vars(CleanupTick)
  /\ WF_vars(IdbStep)
  /\ WF_vars(IdbOpened \/ IdbOpenFailed)

SpecSweep == InitCacheOnly /\ [][NextSweep]_vars /\ SweepFairness

\* The cache over a durable layer that does not open, or opens and rejects
\* every request made of it.
NextDegraded ==
  \/ \E cid \in CacheCallers, k \in CacheKeys, v \in CacheValues, ttl \in CacheTtls :
       CacheSetAwait(cid, k, v, ttl)
  \/ \E cid \in CacheCallers : CacheSetSettle(cid)
  \/ \E k \in CacheKeys : CacheGet(k)
  \/ \E cid \in CacheCallers, k \in CacheKeys : CacheGetAsync(cid, k)
  \/ \E cid \in CacheCallers : CacheSettle(cid)
  \/ \E k \in CacheKeys : CacheDelete(k)
  \/ CacheClear
  \/ CleanupTick
  \/ IdbReject
  \/ IdbOpened
  \/ IdbOpenFailed
  \/ Tick(1)

SpecDegraded == InitCacheOnly /\ [][NextDegraded]_vars

\* The cache at startup: one caller awaits its sets while init() is pending
\* or done; the page may be reloaded.
NextStartup ==
  \/ \E cid \in CacheCallers, k \in CacheKeys, v \in CacheValues, ttl \in CacheTtls :
       CacheSetAwait(cid, k, v, ttl)
  \/ \E cid \in CacheCallers : CacheSetSettle(cid)
  \/ \E k \in CacheKeys : CacheGet(k)
  \/ CleanupTick
  \/ IdbStep
  \/ IdbOpened
  \/ IdbOpenFailed
  \/ Reload
  \/ Tick(1)

SpecStartup == InitCacheOnly /\ [][NextStartup]_vars

\* Deduplication: the list is read by two callers from an API that may fail.
DedupAnswers == {Ok, Status(404), Status(503)}

NextDedup ==
  \/ \E cid \in Readers, f \in ServiceFilters : getReviews(cid, f)
  \/ \E cid \in CallIds : GetReviewsCached(cid)
  \/ \E cid \in CallIds : GetReviewsResponse(cid)
  \/ \E cid \in CallIds : GetReviewsStored(cid)
  \/ \E cid \in CallIds : Collect(cid)
  \/ \E o \in CallIds, a \in DedupAnswers : NetRespond(o, a)
  \/ \E o \in CallIds : RetryFire(o)
  \/ IdbStep
  \/ IdbOpened
  \/ IdbOpenFailed
  \/ Tick(retryDelay)

SpecDedup == InitService /\ [][NextDedup]_vars

(***************************************************************************)
(* The error handler under its direct callers.                             *)
(***************************************************************************)
MaxNotified == 2    \* errors handled while listeners come and go
MaxHandled == 102   \* errors handled in a row

\* What handle is called with: the AxiosErrors of the response interceptor
\* (a timeout, a network error, a request that was cancelled, an error
\* status), another Error, a value that is no Error.
ErrorStatuses == ListedStatuses \cup {408, 418, 501}
ThrownValues ==
  {AxiosError(Answer(k, 0, FALSE, -1)) : k \in {"timeout", "network", "canceled"}}
    \cup {AxiosError(Status(n)) : n \in ErrorStatuses}
    \cup {GenericError, NonError}

Handle(e, max) ==
  /\ errorHandler.handled < max
  /\ errorHandler' = handle(errorHandler, e)
  /\ UNCHANGED <<cacheVars, keyVars, net, server, uiVars>>

Subscribe(l) ==
  /\ errorHandler' = subscribe(errorHandler, l)
  /\ UNCHANGED <<cacheVars, keyVars, net, server, uiVars>>

Unsubscribe(l) ==
  /\ \E i \in 1..Len(errorHandler.errorListeners) : errorHandler.errorListeners[i] = l
  /\ errorHandler' = unsubscribe(errorHandler, l)
  /\ UNCHANGED <<cacheVars, keyVars, net, server, uiVars>>

ClearErrorHistory ==
  /\ errorHandler' = [clearErrorHistory(errorHandler) EXCEPT !.arrived = <<>>]
  /\ UNCHANGED <<cacheVars, keyVars, net, server, uiVars>>

\* Every kind of failure is handled.
NextErrors ==
  \/ \E e \in ThrownValues : Handle(e, MaxNotified)
  \/ ClearErrorHistory

SpecErrors == InitCacheOnly /\ [][NextErrors]_vars

\* Errors are handled while listeners subscribe and unsubscribe.
NotifiedValues == {AxiosError(Status(404)), GenericError}

NextListeners ==
  \/ \E e \in NotifiedValues : Handle(e, MaxNotified)
  \/ \E l \in Listeners : Subscribe(l)
  \/ \E l \in Listeners : Unsubscribe(l)

SpecListeners == InitCacheOnly /\ [][NextListeners]_vars

\* The n-th error of a long run of failures.
ErrorStream(n) ==
  <<AxiosError(Status(404)), AxiosError(Status(500)),
    AxiosError(Answer("timeout", 0, FALSE, -1))>>[(n % 3) + 1]

NextHistory ==
  \/ Handle(ErrorStream(errorHandler.handled + 1), MaxHandled)
  \/ ClearErrorHistory

SpecHistory == InitCacheOnly /\ [][NextHistory]_vars

\* The store's mutators: reviews are fetched, selected, updated, commented
\* and removed, one call at a time.
NextMutate ==
  \/ NextFail
  \/ \E cid \in ListCallers, id \in ServiceIds : removeReview(cid, id)

SpecMutate == InitStoreSpec /\ [][NextMutate]_vars

\* The provider with useStore set, the reconciliation loop running, across
\* reloads of the page.
NextDelegate ==
  \/ \E cid \in ListCallers, o \in FailOptions : providerFetchReviews(cid, o)
  \/ \E cid \in ListCallers : ProviderFetchReviewsFetched(cid)
  \/ \E cid \in ListCallers : FetchReviewsCached(cid)
  \/ \E cid \in ListCallers : FetchReviewsFetched(cid)
  \/ \E cid \in ListCallers : FetchReviewsStored(cid)
  \/ \E cid \in ListCallers, id \in MirrorIds : providerDeleteReview(cid, id)
  \/ \E cid \in ListCallers : ProviderDeleteReviewDeleted(cid)
  \/ \E cid \in ListCallers : DeleteReviewResponse(cid)
  \/ \E cid \in ListCallers : DeleteReviewDeleted1(cid)
  \/ \E cid \in ListCallers : DeleteReviewDeleted2(cid)
  \/ \E cid \in ListCallers : GetReviewsCached(cid)
  \/ \E cid \in ListCallers : GetReviewsResponse(cid)
  \/ \E cid \in ListCallers : GetReviewsStored(cid)
  \/ \E cid \in ListCallers : SyncTick(cid)
  \/ StoreReload
  \/ \E cid \in ListCallers : Collect(cid)
  \/ \E o \in ListCallers, a \in MirrorAnswers : NetRespond(o, a)
  \/ IdbStep
  \/ IdbOpened
  \/ IdbOpenFailed

SpecDelegate == InitStoreSpec /\ [][NextDelegate]_vars

\* cacheManager.delete(k) called while a getAsync awaits the durable layer:
\* the delete request is queued behind the pending get
CacheDeleteDuring(k) ==
  /\ \E c \in CacheCallers : calls[c].op = "getAsync" /\ calls[c].wait = "db"
  /\ Len(cache.queue) <= MaxQueue
  /\ cache' = DeleteSync(cache, k)
  /\ last' = [NoLast EXCEPT !.op = "delete", !.key = k, !.at = now]
  /\ UNCHANGED <<now, calls, setExpiry, keyVars, httpVars, uiVars>>

\* Invalidation: entries are written, read and deleted, a delete may come
\* while a read awaits the object store, and the page may be reloaded.
NextInvalidate ==
  \/ \E cid \in CacheCallers, k \in CacheKeys, v \in CacheValues, ttl \in CacheTtls :
       CacheSetAwait(cid, k, v, ttl)
  \/ \E cid \in CacheCallers : CacheSetSettle(cid)
  \/ \E k \in CacheKeys : CacheGet(k)
  \/ \E cid \in CacheCallers, k \in CacheKeys : CacheGetAsync(cid, k)
  \/ \E cid \in CacheCallers : CacheSettle(cid)
  \/ \E k \in CacheKeys : CacheDelete(k)
  \/ \E k \in CacheKeys : CacheDeleteDuring(k)
  \/ IdbStep
  \/ IdbOpened
  \/ IdbOpenFailed
  \/ Reload
  \/ Tick(1)

SpecInvalidate == InitCacheOnly /\ [][NextInvalidate]_vars

(***************************************************************************)
(* updateComment with the comment the API answers.  The payload of the     *)
(* PATCH is [id, has, replies]: has says that it carries a `replies`       *)
(* field, which a comment of the declared type does and which              *)
(* transformComment allows to be missing.                                  *)
(***************************************************************************)
RECURSIVE CommentPayload(_, _, _, _)
\* comment i of the tree of shape p as the API returns it, with its replies
\* (typed) or without the field
CommentPayload(p, n, i, typed) ==
  LET js == SelectSeq([j \in 1..n |-> j], LAMBDA j : p[j] = i)
  IN [id |-> CommentName(i), has |-> typed,
      replies |-> IF typed THEN [k \in 1..Len(js) |-> CommentPayload(p, n, js[k], typed)]
                  ELSE <<>>]

\* transformComment(data): `data.replies?.map(this.transformComment)` calls
\* the method without `this` for each reply, and a reply that has a replies
\* field of its own then evaluates `this.transformComment`: a TypeError.
\* bound says that the call itself was made on the service.
transformCommentThrows(data, bound) ==
  data.has /\ (bound => \E k \in 1..Len(data.replies) : data.replies[k].has)

\* (a transformComment that leaves the replies to the comment it replaces)
transformCommentData(data) ==
  [ref |-> Ref(MaxComments + 2), id |-> data.id,
   replies |-> [k \in 1..Len(data.replies) |->
                  [ref |-> Ref(MaxComments + 2), id |-> data.replies[k].id,
                   replies |-> <<>>]]]

CommentEdits ==
  {[n |-> n, shape |-> p, target |-> t, review |-> ReviewOf(p, n)] :
     n \in {MaxComments}, p \in TreeShapes(MaxComments), t \in 1..(MaxComments + 1)}

\* store.updateComment(reviewId, commentId, updates) on the review taken up:
\* reviewService.updateComment transforms the payload, or throws and the
\* state is not set
UpdateComment(typed) ==
  LET data == CommentPayload(commentIn.shape, commentIn.n, commentIn.target, typed)
  IN /\ commentIn.n > 0
     /\ ~commentOut.done
     /\ commentOut' =
          [done |-> TRUE,
           review |-> IF transformCommentThrows(data, TRUE) THEN commentIn.review
                      ELSE UpdatedReview(commentIn.review, data.id,
                                         transformCommentData(data))]
     /\ UNCHANGED <<commentIn, keyIn, keyOut, cacheVars, httpVars, uiVars>>

\* The next review and comment are taken up.
NextEdit ==
  /\ commentOut.done
  /\ commentIn' \in CommentEdits
  /\ commentOut' = NoCommentOut
  /\ UNCHANGED <<keyIn, keyOut, cacheVars, httpVars, uiVars>>

InitCommentEdit ==
  /\ InitCache /\ InitHttp /\ server.comments = "absent" /\ InitUi
  /\ keyIn = <<<<>>, <<>>>>
  /\ keyOut = NoKeys
  /\ commentIn \in CommentEdits
  /\ commentOut = NoCommentOut

NextCommentEdit ==
  \/ \E typed \in BOOLEAN : UpdateComment(typed)
  \/ NextEdit

SpecCommentEdit == InitCommentEdit /\ [][NextCommentEdit]_vars

\* Forced fetches: the list and a review are fetched through the store with
\* and without force.
ForceFlags == BOOLEAN

NextForce ==
  \/ \E cid \in ListCallers, o \in FailOptions, force \in ForceFlags : fetchReviews(cid, o, force)
  \/ \E cid \in ListCallers : FetchReviewsCached(cid)
  \/ \E cid \in ListCallers : FetchReviewsFetched(cid)
  \/ \E cid \in ListCallers : FetchReviewsStored(cid)
  \/ \E cid \in ListCallers, id \in ServiceIds, force \in ForceFlags : fetchReview(cid, id, force)
  \/ \E cid \in ListCallers : FetchReviewCached(cid)
  \/ \E cid \in ListCallers : FetchReviewFetched(cid)
  \/ \E cid \in ListCallers : FetchReviewStored(cid)
  \/ \E cid \in ListCallers : GetReviewsCached(cid)
  \/ \E cid \in ListCallers : GetReviewsResponse(cid)
  \/ \E cid \in ListCallers : GetReviewsStored(cid)
  \/ \E cid \in ListCallers : GetReviewCached(cid)
  \/ \E cid \in ListCallers : GetReviewResponse(cid)
  \/ \E cid \in ListCallers : GetReviewStored(cid)
  \/ \E cid \in ListCallers : Collect(cid)
  \/ \E o \in ListCallers, a \in StoreAnswers : NetRespond(o, a)
  \/ IdbStep
  \/ IdbOpened
  \/ IdbOpenFailed

SpecForce == InitStoreSpec /\ [][NextForce]_vars

\* Expiry: entries are set by direct callers and by the response interceptor,
\* with the ttl of a Cache-Control max-age of 0 or 60 seconds or without one.
ExpiryAnswers == {Ok, Answer("ok", 200, TRUE, -1), Answer("ok", 200, TRUE, 0),
                  Answer("ok", 200, TRUE, 60)}

NextExpiry ==
  \/ \E k \in CacheKeys, ttl \in CacheTtls : CacheSet(k, Blob("v1"), ttl)
  \/ \E cid \in ListCallers, id \in ServiceIds : getReview(cid, id)
  \/ \E cid \in ListCallers : GetReviewCached(cid)
  \/ \E cid \in ListCallers : GetReviewResponse(cid)
  \/ \E cid \in ListCallers : GetReviewStored(cid)
  \/ \E cid \in ListCallers : Collect(cid)
  \/ \E o \in ListCallers, a \in ExpiryAnswers : NetRespond(o, a)
  \/ IdbStep
  \/ IdbOpened
  \/ IdbOpenFailed
  \/ Tick(1)

SpecExpiry == InitService /\ [][NextExpiry]_vars
\* C7: two filter objects that hold the same key/value pairs, in whatever
\* insertion order, get the same list cache key and the same request key.
C7_SamePairsSameKeys ==
  (keyOut.done /\ PairsOf(keyIn[1]) = PairsOf(keyIn[2]))
     => /\ keyOut.cacheKey1 = keyOut.cacheKey2
        /\ keyOut.requestKey1 = keyOut.requestKey2

(***************************************************************************)
(* Properties of the cache (checked under SpecCache).                      *)
(***************************************************************************)

\* C5: a get(k) made in the same turn as set(k, v, ttl), ttl > 0, before the
\* set promise is awaited, returns v, also when k already held another value.
C5_GetAfterSetReturnsValue ==
  (last.op = "set" /\ last.ttl > 0 /\ last.at = now)
     => GetResult(cache, last.key, now) = last.val

\* C5 witness: set has just replaced an entry of the memory layer by the big
\* value while its durable write is still pending, and get returns it.
C5_Witness ==
  /\ last.op = "set" /\ last.ttl > 0 /\ last.at = now /\ last.had
  /\ last.val = Some(Blob("big"))
  /\ cache.queue # <<>>
  /\ GetResult(cache, last.key, now) = Some(Blob("big"))

\* C6 (as amended): a get(k) that finds the memory entry of k past its
\* expiresAt returns null and leaves the memory layer without an entry for k.
C6_ExpiredGetEvictsMemory ==
  (last.op = "get" /\ last.expired)
     => (last.val = Null /\ ~MemHas(cache.memoryCache, last.key))

\* C6 witness: such a get has returned null, the memory entry is gone and the
\* durable layer still holds the expired entry.
C6_Witness ==
  /\ last.op = "get" /\ last.expired /\ last.val = Null
  /\ ~MemHas(cache.memoryCache, last.key)
  /\ last.key \in DOMAIN cache.idb
  /\ last.at > cache.idb[last.key].expiresAt

\* C6 (as stated): once the ttl of the latest set(k, v, ttl) has elapsed, get(k)
\* returns null and afterwards neither layer holds an entry for k.
C6_ExpiredGetEvictsBothLayers ==
  (last.op = "get" /\ last.elapsed)
     => /\ last.val = Null
        /\ ~MemHas(cache.memoryCache, last.key)
        /\ last.key \notin DOMAIN cache.idb

(***************************************************************************)
(* Properties of the HTTP client (checked under SpecRetry).                *)
(***************************************************************************)

\* The answers request o has had, the one arriving in this step included.
Settles(o) ==
  /\ net.reqs[o].state = "sent"
  /\ net'.reqs[o].state = "idle"
  /\ Len(errorHandler'.errorQueue) > Len(errorHandler.errorQueue)

Always503(o) ==
  /\ \A i \in 1..Len(net.reqs[o].answers) : net.reqs[o].answers[i] = 503
  /\ errorHandler'.errorQueue[Len(errorHandler'.errorQueue)].v.status = 503

\* C4: a request that is answered 503 every time is transmitted
\* 1 + maxRetries = 4 times in all before its promise rejects, and the
\* rejection carries the code SERVICE_UNAVAILABLE.
C4_Always503SentFourTimes ==
  [][\A o \in CallIds :
       (Settles(o) /\ Always503(o))
          => /\ net.reqs[o].sends = 1 + maxRetries
             /\ errorHandler'.errorQueue[Len(errorHandler'.errorQueue)].v.code
                  = "SERVICE_UNAVAILABLE"]_vars

(***************************************************************************)
(* Properties of ReviewService (checked under SpecService).                *)
(***************************************************************************)

\* The list holds a version of review r older than r.
HasOlder(list, r) ==
  \E i \in 1..Len(list) : list[i].id = r.id /\ list[i].ver < r.ver

Resolves(c, op) ==
  /\ calls[c].op = op
  /\ calls[c].pc # "done"
  /\ calls'[c].pc = "done"
  /\ calls'[c].ret.ok

\* C1: when updateReview(id, updates) resolves, no list key `reviews:<filters>`
\* yields from getAsync a list with the review as it was before the update,
\* and `review:<id>` does not yield the review as it was before the update.
C1_UpdateLeavesNoStaleEntry ==
  [][\A c \in CallIds :
       Resolves(c, "updateReview")
         => LET r == calls'[c].ret.data.v
                one == AsyncView(cache', ReviewCacheKey(r.id), now')
            IN /\ \A f \in ServiceFilters :
                    LET l == AsyncView(cache', ListCacheKey(f), now')
                    IN ~(l.has /\ HasOlder(l.data.v, r))
               /\ ~(one.has /\ one.data.v.ver < r.ver)]_vars

\* C2: a getReviews({status: open}) called after createReview(B) has
\* resolved is not answered from a cached list that lacks B (it goes to the
\* network).
C2_ReadAfterCreateSeesCreated ==
  [][\A c \in CallIds, w \in CallIds :
       (/\ calls[c].op = "idle"
        /\ calls'[c].op = "getReviews"
        /\ calls'[c].f = OpenFilter
        /\ calls[w].op = "createReview"
        /\ calls[w].pc = "done"
        /\ calls[w].ret.ok)
         => LET l == AsyncView(cache, ListCacheKey(OpenFilter), now)
            IN ~(l.has /\ \A i \in 1..Len(l.data.v) :
                             l.data.v[i].id # calls[w].ret.data.v.id)]_vars

\* C3: identical reads made while the first is pending share one network
\* request: no two requests for the same resource are in flight at once.
C3_IdenticalReadsShareRequest ==
  \A a \in CallIds, b \in CallIds :
    (/\ a # b
     /\ net.reqs[a].state # "idle"
     /\ net.reqs[b].state # "idle"
     /\ net.reqs[a].method = "get"
     /\ net.reqs[b].method = "get")
      => ~(/\ net.reqs[a].url = net.reqs[b].url
           /\ net.reqs[a].params = net.reqs[b].params)

(***************************************************************************)
(* Properties of the store (checked under SpecStore and SpecDetail).       *)
(***************************************************************************)

\* C8: when store.fetchReviews(options) resolves after a successful fetch and
\* store.filters is the object it was when the call was made, store.reviews
\* is the fetched list and loading is false, whatever object options is.
C8_FetchedListReachesStore ==
  [][\A c \in CallIds :
       (/\ calls[c].pc = "fetchReviews.stored"
        /\ calls'[c].pc # "fetchReviews.stored"
        /\ store.filters.ref = calls[c].had.ref)
         => /\ store'.reviews = calls[c].tmp.v
            /\ ~store'.loading]_vars

\* C9: of two fetchReview calls, the second made while the first was in
\* progress, the review of the second is the selected one once both have
\* settled, in whatever order the answers came.
C9_LatestRequestedIsSelected ==
  \A a \in CallIds, b \in CallIds :
    (/\ a # b
     /\ calls[a].op = "fetchReview" /\ calls[a].pc = "done" /\ calls[a].after = 0
     /\ calls[b].op = "fetchReview" /\ calls[b].pc = "done" /\ calls[b].after = a)
      => /\ store.selectedReview.has
         /\ store.selectedReview.v.id = calls[b].id

\* C10: a selected review that is also in store.reviews has the same content
\* there.
C10_SelectedMatchesList ==
  store.selectedReview.has
    => \A i \in 1..Len(store.reviews) :
         store.reviews[i].id = store.selectedReview.v.id
           => store.reviews[i] = store.selectedReview.v


(***************************************************************************)
(* The memory budget (checked under SpecBudget).                           *)
(***************************************************************************)

\* The entry of the latest set fits the budget on its own.
FitsBudget ==
  estimateSize(NewEntry(last.val.data, last.ttl, last.at)) <= maxMemorySize

\* C20: after a set of an entry that fits the budget on its own, the
\* accounted size of the memory layer is at most maxMemorySize.
C20_SetKeepsBudget ==
  (last.op = "set" /\ FitsBudget) => cache.currentMemorySize <= maxMemorySize

(***************************************************************************)
(* Cached reads of ReviewService (checked under SpecService).              *)
(***************************************************************************)

AfterService ==
  {"fetchReviews.fetched", "fetchReview.fetched", "storeUpdateReview.updated",
   "storeAddComment.added", "storeUpdateComment.updated"}

\* The store action of call c settles in this step, its service call having
\* failed.
SettlesFailed(c) ==
  /\ calls[c].pc \in AfterService
  /\ calls[c].wait = "none"
  /\ ~calls[c].ret.ok
  /\ calls'[c].pc = "done"

\* C11: when the service call of a store action (fetchReviews, fetchReview,
\* updateReview, addComment, updateComment) fails, the store's error is set
\* once the action settles and reviews and selectedReview are what they were
\* when the action started.
C11_FailureSetsErrorKeepsData ==
  [][\A c \in CallIds :
       SettlesFailed(c)
         => /\ store'.error.has
            /\ store'.reviews = calls[c].before.reviews
            /\ store'.selectedReview = calls[c].before.selectedReview]_vars

(***************************************************************************)
(* The reconciliation loop (checked under SpecSync).                       *)
(***************************************************************************)

\* The ids and versions (updatedAt) a collection of reviews holds.
Content(rs) == {<<rs[i].id, rs[i].ver>> : i \in 1..Len(rs)}

\* The useReviewSync callback runs in this step.
Ticks == provider'.ticks = provider.ticks + 1

\* C12: a reconciliation tick at which store.reviews and the provider's own
\* reviews differ in content starts a refetch, also when the two have the
\* same length.
C12_TickRefetchesOnContentDiff ==
  [][(Ticks /\ ~provider.useStore
        /\ Content(store.reviews) # Content(provider.localReviews))
       => \E c \in CallIds :
            /\ calls[c].op = "idle"
            /\ calls'[c].op = "useReviewSync.fetchReviews"]_vars

\* C13: when the refetch a reconciliation tick started has completed without
\* an error, store.reviews and the provider's reviews hold the same reviews.
C13_RefetchEndsDivergence ==
  [][\A c \in CallIds :
       (/\ calls[c].op = "useReviewSync.fetchReviews"
        /\ calls[c].pc # "done"
        /\ calls'[c].pc = "done"
        /\ ~provider'.error.has)
         => Content(store'.reviews) = Content(provider'.localReviews)]_vars

(***************************************************************************)
(* Reload (checked under SpecReload).                                      *)
(***************************************************************************)

\* C14: the first fetchReviews call after a reload that restored reviews has
\* sent a request by the time it settles, also when the durable cache holds
\* a live entry for its key, and having fetched a list it has put that list
\* in store.reviews.
C14_FirstFetchAfterReloadRefetches ==
  [][\A c \in CallIds :
       (/\ calls[c].op = "fetchReviews"
        /\ calls[c].first
        /\ calls[c].before.reviews # <<>>
        /\ calls[c].pc # "done"
        /\ calls'[c].pc = "done")
         => /\ calls[c].req # 0
            /\ calls[c].pc = "fetchReviews.stored" => store'.reviews = calls[c].tmp.v]_vars

(***************************************************************************)
(* Deletion (checked under SpecDelete).                                    *)
(***************************************************************************)

\* The cached datum is, or lists, the review of that id.
Holds(d, id) ==
  \/ d.t = "review" /\ d.v.id = id
  \/ d.t = "list" /\ \E i \in 1..Len(d.v) : d.v[i].id = id

\* Some live entry of the memory layer, or of the durable layer once the
\* requests pending on it have run, holds the review.
CachedSomewhere(c, id, t) ==
  \/ \E i \in 1..Len(c.memoryCache) :
       /\ t <= c.memoryCache[i].entry.expiresAt
       /\ Holds(c.memoryCache[i].entry.data, id)
  \/ LET durable == ApplyQueue(c.idb, c.queue)
     IN \E k \in DOMAIN durable :
          t <= durable[k].expiresAt /\ Holds(durable[k].data, id)

\* A delete of a review completes in this step without an error.
Deleted(c) ==
  /\ calls'[c].op \in {"deleteReview", "store.removeReview", "provider.deleteReview"}
  /\ calls[c].pc # "done"
  /\ calls'[c].pc = "done"
  /\ calls'[c].ret.ok
  /\ calls'[c].op = "provider.deleteReview" => ~provider'.error.has

\* C15: once a review has been deleted through reviewService.deleteReview,
\* store.removeReview or the provider's deleteReview, no live cache entry of
\* either layer holds it, under review:<id> or in a list under any key.
C15_DeletePurgesEveryEntry ==
  [][\A c \in CallIds :
       Deleted(c) => ~CachedSomewhere(cache', calls'[c].id, now')]_vars

ProviderOps ==
  {"provider.fetchReviews", "provider.fetchReview", "provider.updateReview",
   "provider.deleteReview", "provider.addComment", "provider.updateComment"}

\* the provider's call resolves in this step
ProviderResolves(c) ==
  /\ calls[c].op \in ProviderOps
  /\ calls[c].pc # "done"
  /\ calls'[c].pc = "done"

\* C17: with useStore set, when an operation of the provider resolves, the
\* reviews the provider exposes are store.reviews and its currentReview is
\* store.selectedReview.
C17_DelegateMirrorsStore ==
  [][\A c \in CallIds :
       (provider.useStore /\ ProviderResolves(c)) =>
         /\ ContextReviews' = store'.reviews
         /\ provider'.currentReview = store'.selectedReview]_vars

\* C18: with useStore set, every replacement of the store's state that
\* changes the content of reviews (the length the same or not) leaves the
\* provider's mirrored copy equal to store.reviews.
C18_ListenerSeesContentChange ==
  [][(provider.useStore /\ store'.reviews # store.reviews) =>
       provider'.localReviews = store'.reviews]_vars

\* the comments of shape p on the path from the review to comment t
RECURSIVE PathTo(_, _)
PathTo(p, t) == IF t = 0 THEN {} ELSE {t} \cup PathTo(p, p[t])

\* the refs of the comments of a tree
RECURSIVE RefsIn(_)
RefsIn(comments) ==
  UNION {{comments[k].ref} \cup RefsIn(comments[k].replies) : k \in 1..Len(comments)}

\* C19: updateComment on a comment at any depth yields a review whose files
\* array and whose comments off the path from the root to the updated
\* comment (and not below that comment, which the new comment replaces) are
\* the objects they were; only the path is rebuilt.
C19_OffPathSubtreesShared ==
  commentOut.done =>
    /\ commentOut.review.files = commentIn.review.files
    /\ \A i \in 1..commentIn.n :
         (/\ i \notin PathTo(commentIn.shape, commentIn.target)
          /\ commentIn.target \notin PathTo(commentIn.shape, i))
           => Ref(i) \in RefsIn(commentOut.review.comments)

(***************************************************************************)
(* Properties of the periodic sweep (checked under SpecSweep).             *)
(***************************************************************************)
\* the memory layer holds an entry of k whose expiresAt has passed
MemExpired(k) ==
  MemHas(cache.memoryCache, k) /\ now > MemGet(cache.memoryCache, k).expiresAt

\* C21: an entry whose expiresAt has passed leaves the memory layer by the
\* sweep alone (nobody reads it), whether or not the durable layer opened.
C21_SweepRemovesExpired ==
  \A k \in CacheKeys : MemExpired(k) ~> ~MemExpired(k)

\* the same with the durable layer open: the sweep is running
SweepRemovesExpiredWhenOpen ==
  \A k \in CacheKeys : (cache.db = "open" /\ MemExpired(k)) ~> ~MemExpired(k)

(***************************************************************************)
(* Properties of the cache without a working durable layer (checked under  *)
(* SpecDegraded).                                                          *)
(***************************************************************************)
Settled(cid, op) ==
  calls[cid].op = op /\ calls[cid].pc = "settle" /\ calls[cid].wait = "none"

\* C22: with the durable layer not opened, or rejecting, a set and a
\* getAsync resolve (they do not reject); getAsync resolves with what the
\* memory layer alone had to yield and get returns it too; set, delete and
\* clear have done their work on the memory layer.
C22_DegradesToMemoryOnly ==
  /\ \A cid \in CallIds :
       /\ Settled(cid, "set") => calls[cid].ret.ok
       /\ Settled(cid, "getAsync") =>
            /\ calls[cid].ret.ok
            /\ [has |-> calls[cid].ret.has, data |-> calls[cid].ret.data]
                 = calls[cid].memSeen
  /\ (last.op = "set" /\ last.at = now /\ last.ttl > 0)
        => GetResult(cache, last.key, now) = last.val
  /\ last.op = "delete" => ~MemHas(cache.memoryCache, last.key)
  /\ last.op = "clear" => cache.memoryCache = <<>>

\* C22 witness: the durable layer is open, a getAsync that missed the memory
\* layer had its read rejected and has resolved with null.
C22_Witness ==
  \E cid \in CallIds :
    /\ Settled(cid, "getAsync")
    /\ last.op = "rejected:get"
    /\ last.key = calls[cid].key
    /\ ~calls[cid].memSeen.has
    /\ calls[cid].ret = RetNull

(***************************************************************************)
(* Properties of getAsync over the two layers (checked under SpecCache).   *)
(***************************************************************************)
\* what a settled getAsync resolved with, as [has, data]
Resolved(cid) == [has |-> calls[cid].ret.has, data |-> calls[cid].ret.data]

\* getAsync was called with no memory entry and a durable entry that is
\* still live, and the durable layer is open
DurableLive(cid) ==
  /\ Settled(cid, "getAsync")
  /\ ~calls[cid].view.mem
  /\ calls[cid].view.dur
  /\ now <= calls[cid].view.durEntry.expiresAt
  /\ cache.db = "open"

\* getAsync returns the live durable entry
DurableHitReturned ==
  \A cid \in CallIds :
    DurableLive(cid) => Resolved(cid) = Some(calls[cid].view.durEntry.data)

\* the step in which the promise of getAsync(k) of call cid resolves
ResolvesStep(cid) ==
  /\ calls'[cid].op = "getAsync"
  /\ calls'[cid].wait = "none"
  /\ calls[cid].op # "getAsync" \/ calls[cid].wait = "db"

\* when getAsync resolves with a durable entry, get returns the same data
DurableHitRepopulates ==
  \A cid \in CallIds :
    (ResolvesStep(cid) /\ ~calls'[cid].view.mem /\ calls'[cid].ret.has)
       => GetResult(cache', calls'[cid].key, now') = Resolved(cid)'

\* getAsync found the entry expired: in the memory layer (the durable layer
\* holding that entry or none), or in the durable layer it read
ExpiredFound(cid) ==
  LET v == calls'[cid].view
  IN /\ ResolvesStep(cid)
     /\ \/ v.memExpired /\ (v.dur => v.durEntry.expiresAt < now')
        \/ ~v.mem /\ v.dur /\ v.db = "open" /\ v.durEntry.expiresAt < now'

\* it is reported absent and is then in neither layer
ExpiredReportedAbsent ==
  \A cid \in CallIds :
    ExpiredFound(cid) =>
      /\ Resolved(cid)' = Null
      /\ ~MemHas(cache'.memoryCache, calls'[cid].key)
      /\ calls'[cid].view.db = "open"
           => calls'[cid].key \notin DOMAIN ApplyQueue(cache'.idb, cache'.queue)

\* C23: getAsync(k) with no memory entry and a live durable entry returns
\* that entry's data, after which get(k) returns the same; an entry found
\* expired is reported absent and is then in neither layer.
C23_GetAsyncFallsBackToDurable ==
  /\ []DurableHitReturned
  /\ [][DurableHitRepopulates]_vars
  /\ [][ExpiredReportedAbsent]_vars

\* the parts that hold: what getAsync does with the layer it reads
GetAsyncRepopulatesAndEvicts ==
  [][DurableHitRepopulates /\ ExpiredReportedAbsent]_vars

\* the set of call cid has resolved, its entry has not expired, and the
\* durable layer is open
SetResolved(cid) ==
  /\ Settled(cid, "set")
  /\ now <= setExpiry[calls[cid].key]
  /\ cache.db = "open"

\* C24: once set(k, v, ttl) has resolved and the durable layer is available,
\* the durable layer holds an entry for k with data v, also for a set issued
\* before init() has completed.
C24_ResolvedSetIsDurable ==
  \A cid \in CallIds :
    SetResolved(cid) =>
      /\ calls[cid].key \in DOMAIN cache.idb
      /\ cache.idb[calls[cid].key].data = calls[cid].tmp

\* The same for the sets issued once openDB has resolved.
ResolvedSetIsDurableOnceOpen ==
  \A cid \in CallIds :
    (SetResolved(cid) /\ calls[cid].view.db = "open") =>
      /\ calls[cid].key \in DOMAIN cache.idb
      /\ cache.idb[calls[cid].key].data = calls[cid].tmp

(***************************************************************************)
(* requestWithDeduplication (checked under SpecDedup).                     *)
(***************************************************************************)
Outstanding(o) == net.reqs[o].state # "idle"

\* every key of the in-flight map is the key of an outstanding request, and
\* every call that awaits a request awaits an outstanding one
InFlightOnlyWhileOutstanding ==
  /\ \A k \in DOMAIN net.requestQueue :
       /\ Outstanding(net.requestQueue[k])
       /\ net.reqs[net.requestQueue[k]].rkey = k
  /\ \A c \in CallIds : calls[c].wait = "net" => Outstanding(calls[c].req)

\* the step that settles a request removes its key
SettleRemovesKey ==
  \A o \in CallIds :
    (Outstanding(o) /\ ~Outstanding(o)' /\ net.reqs[o].rkey # "")
       => net.reqs[o].rkey \notin DOMAIN net'.requestQueue

\* a call that reaches requestWithDeduplication while no request with its key
\* is outstanding sends a request of its own
NextCallSendsAnew ==
  \A c \in CallIds :
    (/\ At(c, "getReviews.cached")
     /\ calls'[c].pc = "getReviews.response"
     /\ ~\E o \in CallIds : Outstanding(o) /\ net.reqs[o].rkey = RequestKey(calls[c].f))
       => /\ calls'[c].req = c
          /\ net'.reqs[c].state = "sent"
          /\ net'.reqs[c].sends = 1
          /\ net'.requestQueue[RequestKey(calls[c].f)] = c

\* C25: a deduplication key is in the in-flight map only while its request
\* is outstanding; when the shared promise settles (success or failure) the
\* entry is removed, and the next call with the key sends a new request.
C25_DedupEntryRemovedOnSettle ==
  /\ []InFlightOnlyWhileOutstanding
  /\ [][SettleRemovesKey /\ NextCallSendsAnew]_vars

\* The request of call o has failed and settled (o has not looked at the
\* failure yet), and call c, with the same key, has a request of its own on
\* the wire.
C25_Witness ==
  \E c \in CallIds, o \in CallIds :
    /\ o # c
    /\ At(o, "getReviews.response")
    /\ ~calls[o].ret.ok
    /\ ~Outstanding(o)
    /\ calls[c].f = calls[o].f
    /\ calls[c].wait = "net"
    /\ calls[c].req = c
    /\ net.reqs[c].state = "sent"
    /\ net.requestQueue = (RequestKey(calls[c].f) :> c)

(***************************************************************************)
(* The retry policy (checked under SpecRetry).                             *)
(***************************************************************************)
\* the error the response interceptor hands to the error handler in this step
Surfaced == errorHandler'.errorQueue[Len(errorHandler'.errorQueue)].v

\* request o is answered with an error status outside retryableStatuses, its
\* first failure
FirstFailureNotRetryable(o) ==
  /\ net.reqs[o].state = "sent"
  /\ net.reqs[o].answers = <<>>
  /\ net'.reqs[o] # net.reqs[o]
  /\ \/ /\ net'.reqs[o].state = "backoff"
        /\ net'.reqs[o].answers[1] \notin retryableStatuses
     \/ /\ Settles(o)
        /\ Surfaced.status # 0
        /\ Surfaced.status \notin retryableStatuses

SentOnceAndSurfaced(o) ==
  /\ Settles(o)
  /\ net.reqs[o].sends = 1
  /\ \A c \in CallIds :
       (calls[c].wait = "net" /\ calls[c].req = o)
          => /\ calls'[c].wait = "none"
             /\ ~calls'[c].ret.ok
             /\ calls'[c].ret.data.v.status = Surfaced.status

\* C26: a request whose failure status is not in {408, 429, 500, 502, 503,
\* 504} is sent exactly once and its failure is surfaced without a retry;
\* no request is sent more than 1 + maxRetries times.
C26_NonRetryableSentOnce ==
  /\ [](\A o \in CallIds : net.reqs[o].sends <= 1 + maxRetries)
  /\ [][\A o \in CallIds : FirstFailureNotRetryable(o) => SentOnceAndSurfaced(o)]_vars

\* A call has been handed the 404 of its request, which is in the history.
C26_Witness ==
  \E c \in CallIds :
    /\ At(c, "getReview.response")
    /\ ~calls[c].ret.ok
    /\ calls[c].ret.data.v.status = 404
    /\ ~Outstanding(c)
    /\ Len(errorHandler.errorQueue) = 1
    /\ errorHandler.errorQueue[1].v.code = "NOT_FOUND"

\* C27: a request that fails with a timeout or a network error is retried up
\* to the retry cap; its error reaches the caller only once the retries are
\* exhausted.
C27_TimeoutsAreRetried ==
  [][\A o \in CallIds :
       (Settles(o) /\ Surfaced.code \in {"TIMEOUT_ERROR", "NETWORK_ERROR"})
          => net.reqs[o].retryCount = maxRetries]_vars

(***************************************************************************)
(* The error handler (checked under SpecErrors and SpecHistory).           *)
(***************************************************************************)
Taxonomy ==
  {"TIMEOUT", "NETWORK", "VALIDATION", "UNAUTHORIZED", "FORBIDDEN", "NOT_FOUND",
   "CONFLICT", "RATE_LIMIT", "SERVER_ERROR", "SERVICE_UNAVAILABLE", "GENERIC",
   "UNKNOWN"}

\* The kind a code stands for: the codes of five kinds end in _ERROR.
KindOf(code) ==
  CASE code = "TIMEOUT_ERROR" -> "TIMEOUT"
    [] code = "NETWORK_ERROR" -> "NETWORK"
    [] code = "VALIDATION_ERROR" -> "VALIDATION"
    [] code = "GENERIC_ERROR" -> "GENERIC"
    [] code = "UNKNOWN_ERROR" -> "UNKNOWN"
    [] OTHER -> code

\* The kind the taxonomy gives a failure.
ExpectedKind(e) ==
  CASE e.class = "Error" -> "GENERIC"
    [] e.class = "other" -> "UNKNOWN"
    [] e.kind = "timeout" -> "TIMEOUT"
    [] e.kind # "status" -> "NETWORK"
    [] e.status \in {400, 422} -> "VALIDATION"
    [] e.status = 401 -> "UNAUTHORIZED"
    [] e.status = 403 -> "FORBIDDEN"
    [] e.status = 404 -> "NOT_FOUND"
    [] e.status = 409 -> "CONFLICT"
    [] e.status = 429 -> "RATE_LIMIT"
    [] e.status = 500 -> "SERVER_ERROR"
    [] e.status \in {502, 503, 504} -> "SERVICE_UNAVAILABLE"
    [] OTHER -> "UNKNOWN"

\* C28: every failure surfaced is a normalized error whose kind is in the
\* taxonomy and is the one the taxonomy gives that failure; no kind outside
\* the taxonomy is produced for any status.
C28_KindInTaxonomy ==
  errorHandler.handled > 0 =>
    /\ KindOf(errorHandler.returned.v.code) \in Taxonomy
    /\ KindOf(errorHandler.returned.v.code) = ExpectedKind(errorHandler.thrown)

\* The same for the failures handleAxiosError has a case for: a timeout, a
\* network error, a listed status, and for the values that are no AxiosError.
ListedFailure(e) ==
  \/ e.class # "AxiosError"
  \/ e.kind \in {"timeout", "network"}
  \/ e.kind = "status" /\ e.status \in ListedStatuses

KindInTaxonomyWhenListed ==
  (errorHandler.handled > 0 /\ ListedFailure(errorHandler.thrown)) =>
    /\ KindOf(errorHandler.returned.v.code) \in Taxonomy
    /\ KindOf(errorHandler.returned.v.code) = ExpectedKind(errorHandler.thrown)

\* the step is a call of handle
Handles == errorHandler'.handled = errorHandler.handled + 1

Subscribed(l) ==
  \E i \in 1..Len(errorHandler.errorListeners) : errorHandler.errorListeners[i] = l

\* a subscribed listener throws while it is notified
ListenerThrows == \E l \in Throwing : Subscribed(l)

\* C29: when a subscribed listener throws while being notified, handle still
\* returns the normalized error, every other subscribed listener is notified
\* of it, and the error is in the history.
C29_ThrowingListenerIsContained ==
  [][(Handles /\ ListenerThrows) =>
       /\ errorHandler'.returned = Normalize(errorHandler'.thrown)
       /\ \A l \in Listeners :
            Subscribed(l) => errorHandler'.received[l] = errorHandler'.handled
       /\ errorHandler'.errorQueue # <<>>
       /\ errorHandler'.errorQueue[Len(errorHandler'.errorQueue)]
            = errorHandler'.returned]_vars

\* The throwing listener was notified before another listener, which has
\* the error too.
C29_Witness ==
  /\ errorHandler.handled > 0
  /\ errorHandler.logged > 0
  /\ Len(errorHandler.errorListeners) >= 2
  /\ errorHandler.errorListeners[1] \in Throwing
  /\ \A i \in 1..Len(errorHandler.errorListeners) :
       errorHandler.received[errorHandler.errorListeners[i]] = errorHandler.handled
  /\ errorHandler.errorQueue[Len(errorHandler.errorQueue)] = errorHandler.returned

\* the last n elements of sequence s (all of s when it has fewer)
LastOf(s, n) ==
  IF Len(s) <= n THEN s ELSE SubSeq(s, Len(s) - n + 1, Len(s))

\* C30: after any sequence of handled errors the history holds at most
\* maxQueueSize entries and equals the most recent handled errors in their
\* order of arrival.
C30_HistoryIsMostRecent ==
  /\ Len(errorHandler.errorQueue) <= maxQueueSize
  /\ errorHandler.errorQueue = LastOf(errorHandler.arrived, maxQueueSize)

\* More than maxQueueSize errors have been handled since the history was
\* cleared: the history is full and no longer starts with the oldest.
C30_Witness ==
  /\ Len(errorHandler.arrived) = maxQueueSize + 2
  /\ Len(errorHandler.errorQueue) = maxQueueSize
  /\ errorHandler.errorQueue[1] = errorHandler.arrived[3]
  /\ errorHandler.errorQueue[1] # errorHandler.arrived[1]
  /\ errorHandler.errorQueue[maxQueueSize] = errorHandler.returned

(***************************************************************************)
(* The store's mutators publish one state (checked under SpecMutate).      *)
(***************************************************************************)
\* reviews and selectedReview both hold review id
HoldBoth(s, id) ==
  /\ HasReview(s.reviews, id)
  /\ s.selectedReview.has
  /\ s.selectedReview.v.id = id

\* the step is the set(...) of updateReview / addComment / updateComment /
\* removeReview for review id, and changes reviews or selectedReview
MutatorPublishes(id) ==
  /\ \E cid \in CallIds :
       \/ /\ calls[cid].pc \in {"storeUpdateReview.updated", "storeAddComment.added",
                                "storeUpdateComment.updated"}
          /\ calls[cid].wait = "none"
          /\ calls[cid].id = id
          /\ calls'[cid] # calls[cid]
       \/ /\ Free(cid)
          /\ calls'[cid].op = "store.removeReview"
          /\ calls'[cid].id = id
  /\ Snapshot(store') # Snapshot(store)

\* C31: updateReview, removeReview, addComment and updateComment publish
\* their change to reviews and to selectedReview in one state replacement:
\* when both hold the review, no published state has the mutation in one of
\* them only.
C31_MutatorsPublishWholeState ==
  [][\A id \in ReviewIds :
       (HoldBoth(store, id) /\ MutatorPublishes(id))
          => \/ /\ ~HasReview(store'.reviews, id)
                /\ ~store'.selectedReview.has
             \/ /\ HoldBoth(store', id)
                /\ FindReview(store'.reviews, id) = store'.selectedReview.v
                /\ FindReview(store'.reviews, id) # FindReview(store.reviews, id)
                     \/ store'.selectedReview # store.selectedReview]_vars

\* addComment has published the review with the new comment in reviews and
\* in selectedReview.
C31_Witness ==
  \E cid \in CallIds :
    /\ calls[cid].op = "store.addComment"
    /\ calls[cid].pc = "done"
    /\ calls[cid].ret.ok
    /\ HoldBoth(store, calls[cid].id)
    /\ FindReview(store.reviews, calls[cid].id).comments = "c1"
    /\ store.selectedReview.v.comments = "c1"

(***************************************************************************)
(* The backoff of retryRequest (checked under SpecRetry).                  *)
(***************************************************************************)
\* retryRequest puts request o to sleep in this step
BacksOff(o) == net.reqs[o].state = "sent" /\ net'.reqs[o].state = "backoff"

\* the delay before the n-th retry is retryDelay * 2^(n-1)
BackoffDoubles ==
  \A o \in CallIds :
    BacksOff(o) =>
      /\ net'.reqs[o].retryCount = net.reqs[o].retryCount + 1
      /\ net'.reqs[o].delay = retryDelay * (2 ^ (net'.reqs[o].retryCount - 1))
      /\ net'.reqs[o].wakeAt = now + net'.reqs[o].delay

\* C32: in a chain of retries of one request the delay before the n-th
\* retry (n = 1, 2, 3) is retryDelay * 2^(n-1): a request that keeps failing
\* with a retryable status waits 1000 ms, 2000 ms and 4000 ms.
C32_BackoffDelays ==
  [][/\ BackoffDoubles
     /\ \A o \in CallIds :
          (Settles(o) /\ Always503(o))
             => /\ net.reqs[o].retryCount = maxRetries
                /\ net.reqs[o].delay = retryDelay * (2 ^ (maxRetries - 1))]_vars

\* What holds: every retry that is made waits retryDelay * 2^(n-1).
EveryBackoffDoubles == [][BackoffDoubles]_vars

(***************************************************************************)
(* The reconciliation loop in delegate mode (checked under SpecDelegate).  *)
(***************************************************************************)
\* C33: with the provider in delegate mode (useStore set) no reconciliation
\* tick triggers a fetch.
C33_NoSyncFetchInDelegateMode ==
  /\ [][(provider.useStore /\ Ticks)
          => /\ calls' = calls
             /\ net' = net
             /\ cache' = cache
             /\ store' = store]_vars
  /\ [](provider.useStore
          => \A cid \in CallIds : calls[cid].op # "useReviewSync.fetchReviews")

\* After a reload the store holds the rehydrated reviews, the provider's own
\* list is empty, and the interval has fired without a call being made.
C33_Witness ==
  /\ provider.useStore
  /\ store.restored
  /\ Len(store.reviews) > 0
  /\ provider.localReviews = <<>>
  /\ provider.ticks > 0
  /\ \A cid \in CallIds : Free(cid)

(***************************************************************************)
(* Reads in flight across an invalidation (checked under SpecService).     *)
(***************************************************************************)
Done(c, op) == calls[c].op = op /\ calls[c].pc = "done" /\ calls[c].ret.ok

\* the cache yields, under the key updateReview invalidates for the read, the
\* review as it was before update r
YieldsOlder(c, r) ==
  LET one == AsyncView(cache, ReviewCacheKey(r.id), now)
      list == AsyncView(cache, EmptyFiltersKey, now)
  IN \/ calls[c].op = "getReview" /\ one.has /\ one.data.v.ver < r.ver
     \/ calls[c].op = "getReviews" /\ list.has /\ HasOlder(list.data.v, r)

\* C34: a getReview(id) / getReviews(filters) that has taken its cache miss
\* and awaits its request when updateReview(id) succeeds and invalidates the
\* cache does not write its result back afterwards: once both have settled
\* the cache does not hold the pre-update review under review:<id>, nor a
\* pre-update list under the list key.
C34_NoStaleWriteBack ==
  \A c \in CallIds, w \in CallIds :
    (/\ Done(c, "getReview") \/ Done(c, "getReviews")
     /\ Done(w, "updateReview"))
       => ~YieldsOlder(c, calls[w].ret.data.v)

\* a getAsync(k) that awaited the durable layer when delete(k) was called
\* resumes in this step
ResumesAfterDelete(c) ==
  /\ last.op = "delete"
  /\ calls[c].op = "getAsync" /\ calls[c].key = last.key
  /\ calls[c].wait = "db" /\ calls'[c].wait = "none"

\* C35: after delete(k) has returned, with no later set(k), no read returns
\* the deleted value: a getAsync(k) that was awaiting the durable layer when
\* delete was called resolves to null, and the memory layer has no entry for
\* k once it has completed.
C35_DeletedValueIsGone ==
  [][\A c \in CallIds :
       ResumesAfterDelete(c)
         => /\ ~calls'[c].ret.has
            /\ ~GetResult(cache', calls[c].key, now).has]_vars

\* C36: in every reachable cache state currentMemorySize is the sum of the
\* estimated sizes of the entries in the memory map, and is never negative.
C36_SizeIsAccounted ==
  /\ cache.currentMemorySize = MemBytes(cache.memoryCache)
  /\ cache.currentMemorySize >= 0

\* the content of a tree of comments: the ids at their positions, and which
\* of them is the comment the API answered
RECURSIVE TreeContent(_)
TreeContent(comments) ==
  [k \in 1..Len(comments) |->
     [id |-> comments[k].id,
      updated |-> comments[k].ref = Ref(MaxComments + 2),
      replies |-> TreeContent(comments[k].replies)]]

\* the content of the tree with the comment of that id replaced, all else kept
RECURSIVE Edited(_, _)
Edited(comments, commentId) ==
  [k \in 1..Len(comments) |->
     [id |-> comments[k].id,
      updated |-> comments[k].id = commentId,
      replies |-> Edited(comments[k].replies, commentId)]]

HasReplies(p, n, t) == \E j \in 1..n : p[j] = t

\* C37: updateComment replaces exactly the comment whose id is commentId, at
\* whatever depth it sits, by the updated comment; every other comment keeps
\* its content and its position, and when no comment has that id the content
\* of the tree is unchanged.
C37_ExactlyTheCommentReplaced ==
  commentOut.done =>
    TreeContent(commentOut.review.comments)
      = Edited(commentIn.review.comments, CommentName(commentIn.target))

\* (what holds: a comment without replies is replaced, at any depth, and an
\* id no comment has changes nothing)
LeafCommentReplaced ==
  (commentOut.done /\ ~HasReplies(commentIn.shape, commentIn.n, commentIn.target)) =>
    TreeContent(commentOut.review.comments)
      = Edited(commentIn.review.comments, CommentName(commentIn.target))

\* store.addComment(id, c) resolves successfully in this step
AddCommentResolves(cid) ==
  /\ calls[cid].pc = "storeAddComment.added"
  /\ calls[cid].wait = "none"
  /\ calls[cid].ret.ok
  /\ calls'[cid].pc = "done"

\* C38: after store.addComment(reviewId, c) has resolved successfully, a
\* selectedReview that is the review reviewId has the new comment in its
\* comments, whether or not store.reviews holds that review.
C38_SelectedReviewGetsComment ==
  [][\A cid \in CallIds :
       (/\ AddCommentResolves(cid)
        /\ store'.selectedReview.has
        /\ store'.selectedReview.v.id = calls[cid].id)
          => store'.selectedReview.v.comments = calls[cid].ret.data.v.id]_vars

\* (what holds: the comment is there when store.reviews holds the review)
ListedReviewGetsComment ==
  [][\A cid \in CallIds :
       (/\ AddCommentResolves(cid)
        /\ HasReview(store.reviews, calls[cid].id)
        /\ store'.selectedReview.has
        /\ store'.selectedReview.v.id = calls[cid].id)
          => store'.selectedReview.v.comments = calls[cid].ret.data.v.id]_vars

\* reviewService.getReviews / getReview has returned to a forced fetch
ForcedFetchResumes(cid) ==
  /\ calls[cid].force
  /\ calls[cid].pc \in {"fetchReviews.fetched", "fetchReview.fetched"}
  /\ calls[cid].wait = "none"
  /\ calls[cid].ret.ok

\* C39: store.fetchReviews(options, true) and store.fetchReview(id, true)
\* send a network request even when a live cache entry exists under the key,
\* and the state is set from the response: what the service returned to a
\* forced fetch came from a request the call sent.
C39_ForcedFetchSendsRequest ==
  \A cid \in CallIds : ForcedFetchResumes(cid) => calls[cid].req # 0

\* (what holds: a forced fetch does not read the cache in the store itself)
ForcedFetchSkipsStoreCheck ==
  \A cid \in CallIds :
    calls[cid].force => calls[cid].pc \notin {"fetchReviews.cached", "fetchReview.cached"}

\* the entries held by either layer, the durable writes pending included
EntriesOf(c) ==
  {c.memoryCache[i].entry : i \in 1..Len(c.memoryCache)}
    \cup {c.idb[k] : k \in DOMAIN c.idb}
    \cup {c.queue[i].entry : i \in {j \in 1..Len(c.queue) : c.queue[j].op = "put"}}

\* the entries the response interceptor has set (their keys start with the
\* method of the request)
InterceptorEntries(c) ==
  {c.memoryCache[i].entry :
     i \in {j \in 1..Len(c.memoryCache) :
              /\ Len(c.memoryCache[j].key) >= 4
              /\ SubSeq(c.memoryCache[j].key, 1, 4) = "get:"}}

\* C40: every entry stored in either cache layer has expiresAt strictly
\* greater than its timestamp, for every ttl a caller of set can supply, the
\* ttl the HTTP client derives from a Cache-Control max-age included.
C40_ExpiresAfterTimestamp ==
  \A e \in EntriesOf(cache) : e.expiresAt > e.timestamp

\* (the same of the entries the response interceptor sets)
InterceptorEntryExpiresLater ==
  \A e \in InterceptorEntries(cache) : e.expiresAt > e.timestamp

\* (what holds: no entry expires before its timestamp)
ExpiresNotBeforeTimestamp ==
  \A e \in EntriesOf(cache) : e.expiresAt >= e.timestamp
====
